---- MODULE Spec2Model ----
(***************************************************************************)
(* Discrete-time spiking-network simulator: neuron models, synapse models, *)
(* the lateral-inhibition layer and the network orchestrators.             *)
(*                                                                         *)
(* Numbers.  The program computes in IEEE doubles.  Here every real        *)
(* quantity (potential, weight, trace, current, factor) is a fixed-point    *)
(* integer: the real value times ONE.  Times are integer milliseconds      *)
(* (event-based network, 3-layer network, unit drivers) or fixed-point     *)
(* milliseconds (trace-carrying neuron and network, whose dt is 0.1 ms).   *)
(* -Infinity (a spike time that never happened) is the sentinel NegInf.    *)
(***************************************************************************)
EXTENDS Integers, Sequences, FiniteSets, TLC

VARIABLES
    evt,      \* event-based SimpleSTDPNetwork object (sim/SimpleSTDPNetwork)
    evtRun,   \* position of its run(): loop index, arguments, RunResult
    trc,      \* trace-based SimpleSTDPNetwork object (brain/network)
    trcRun,   \* position of its train/test/runFullDemo call and _simulate loop
    snn,      \* RecurrentSNN object
    snnRun,   \* position of its run(): loop index, arguments, TrainResult
    rng,      \* hidden state of the engine's own Math.random
    unit,     \* one neuron or synapse object driven on its own, with its call history
    exp,      \* runExperiment: the execution in progress and the one before it
    lay,      \* SpikingLayer objects driven on their own, with the states returned
    tst       \* RecurrentSNN.test's scoring of an output raster

vars == <<evt, evtRun, trc, trcRun, snn, snnRun, rng, unit, exp, lay, tst>>

\* ------------------------------------------------------------------ numbers
ONE == 10 * 1000
NegInf == 0 - 1000000

Max(a, b) == IF a >= b THEN a ELSE b
Min(a, b) == IF a <= b THEN a ELSE b
Abs(a) == IF a >= 0 THEN a ELSE 0 - a

\* a * b of two fixed-point numbers and a / b of a fixed-point number by a whole
\* one, rounded toward zero; the product is formed in two parts to stay in 32 bits
Mul(a, b) ==
    LET x == Abs(a)
        y == Abs(b)
        m == (x \div ONE) * y + ((x % ONE) * y) \div ONE
    IN IF (a >= 0) = (b >= 0) THEN m ELSE 0 - m
Quot(a, b) == IF a >= 0 THEN a \div b ELSE 0 - ((0 - a) \div b)

\* Math.exp(-1 / tau) for the time constants the program uses
ExpUnit(tau) ==
    CASE tau = 20 -> 9512
      [] tau = 5 -> 8187
      [] tau = 10 -> 9048

\* acc * Math.exp(-d / tau), one millisecond at a time
RECURSIVE ExpNegFrom(_, _, _)
ExpNegFrom(acc, d, tau) ==
    IF d <= 0 \/ acc = 0 THEN acc ELSE ExpNegFrom(Mul(acc, ExpUnit(tau)), d - 1, tau)

\* Math.exp(-d / tau), d a whole number of milliseconds >= 0
ExpNeg(d, tau) == ExpNegFrom(ONE, d, tau)

\* Math.ceil(a / b) for integers a, b > 0 or a <= 0
Ceil(a, b) == IF a >= 0 THEN (a + b - 1) \div b ELSE 0 - ((0 - a) \div b)

\* ------------------------------------------------- LIFNeuron (neurons.ts)
LIF_tauMs == 20
LIF_refractoryMs == 2

LIFNeuron(params) ==
    [v |-> params.vRest, tLastSpike |-> NegInf, params |-> params]

LIFParams(tauMs, vThreshold, refractoryMs) ==
    [tauMs |-> tauMs, vRest |-> 0, vReset |-> 0,
     vThreshold |-> vThreshold, refractoryMs |-> refractoryMs]

LIF_reset(n) == [n EXCEPT !.v = n.params.vRest, !.tLastSpike = NegInf]

\* step(inputCurrent, dtMs, tMs): the neuron after the step and whether it fired
LIF_step(n, inputCurrent, dtMs, tMs) ==
    LET p == n.params IN
    IF n.tLastSpike # NegInf /\ tMs - n.tLastSpike < p.refractoryMs
    THEN [n |-> [n EXCEPT !.v = p.vReset], spike |-> FALSE]
    ELSE LET dv == (Quot(0 - (n.v - p.vRest), p.tauMs) + inputCurrent) * dtMs
             v1 == n.v + dv
         IN IF v1 >= p.vThreshold
            THEN [n |-> [n EXCEPT !.v = p.vReset, !.tLastSpike = tMs], spike |-> TRUE]
            ELSE [n |-> [n EXCEPT !.v = v1], spike |-> FALSE]

\* ------------------------------------- STDPSynapse, event form (synapses.ts)
STDP_wMin == 0
STDP_wMaxDefault == 2
STDP_aPlus == 200
STDP_aMinus == 250
STDP_tauPlusMs == 20
STDP_tauMinusMs == 20
STDP_lookback == 10000

STDPSynapse(w, wMin, wMax) ==
    [w |-> w, tPreLast |-> NegInf, tPostLast |-> NegInf,
     wMin |-> wMin, wMax |-> wMax]

STDP_reset(s) == [s EXCEPT !.tPreLast = NegInf, !.tPostLast = NegInf]

STDP_clamp(s) == [s EXCEPT !.w = Max(s.wMin, Min(s.wMax, s.w))]

\* onPreSpike that depresses only when the postsynaptic spike is strictly earlier
STDP_onPreSpikeStrictlyAfter(s, tMs) ==
    LET dt == tMs - s.tPostLast
        upd == IF s.tPostLast # NegInf /\ dt > 0 /\ dt < STDP_lookback
               THEN STDP_clamp([s EXCEPT !.w = s.w - Mul(STDP_aMinus, ExpNeg(dt, STDP_tauMinusMs))])
               ELSE s
    IN [upd EXCEPT !.tPreLast = tMs]

STDP_onPreSpike(s, tMs) ==
    LET dt == tMs - s.tPostLast
        upd == IF s.tPostLast # NegInf /\ dt >= 0 /\ dt < STDP_lookback
               THEN STDP_clamp([s EXCEPT !.w = s.w - Mul(STDP_aMinus, ExpNeg(dt, STDP_tauMinusMs))])
               ELSE s
    IN [upd EXCEPT !.tPreLast = tMs]

STDP_onPostSpike(s, tMs) ==
    LET dt == tMs - s.tPreLast
        upd == IF s.tPreLast # NegInf /\ dt >= 0 /\ dt < STDP_lookback
               THEN STDP_clamp([s EXCEPT !.w = s.w + Mul(STDP_aPlus, ExpNeg(dt, STDP_tauPlusMs))])
               ELSE s
    IN [upd EXCEPT !.tPostLast = tMs]

\* ----------------------- SimpleSTDPNetwork, event form (sim/SimpleSTDPNetwork)
Evt_dtMs == 1
Evt_inputPulseCurrent == 12000
Evt_inTauMs == 10
Evt_inRefractoryMs == 1

PATTERN_A == [name |-> "A", pre1SpikeMs |-> 20, pre2SpikeMs |-> 30]
PATTERN_B == [name |-> "B", pre1SpikeMs |-> 30, pre2SpikeMs |-> 20]

\* constructor options explored: outThreshold (default 1.0) and the initial weights
EvtThresholds == {ONE \div 2, (9 * ONE) \div 10, ONE}
EvtInitialW == {<<(6 * ONE) \div 10, (6 * ONE) \div 10>>, <<3 * ONE, (6 * ONE) \div 10>>}
EvtPatterns == {PATTERN_A, PATTERN_B}
EvtDurations == {0 - 1, 0, 32}
MaxEvtRuns == 3

SimpleSTDPNetwork(outThreshold, initialW1, initialW2) ==
    [in1 |-> LIFNeuron(LIFParams(Evt_inTauMs, ONE, Evt_inRefractoryMs)),
     in2 |-> LIFNeuron(LIFParams(Evt_inTauMs, ONE, Evt_inRefractoryMs)),
     out |-> LIFNeuron(LIFParams(LIF_tauMs, outThreshold, LIF_refractoryMs)),
     syn1 |-> STDPSynapse(initialW1, STDP_wMin, STDP_wMaxDefault * ONE),
     syn2 |-> STDPSynapse(initialW2, STDP_wMin, STDP_wMaxDefault * ONE),
     dtMs |-> Evt_dtMs,
     inputPulseCurrent |-> Evt_inputPulseCurrent]

\* run(): the per-episode reset at its head
Evt_resetEpisode(net) ==
    [net EXCEPT !.in1 = LIF_reset(net.in1), !.in2 = LIF_reset(net.in2),
                !.out = LIF_reset(net.out),
                !.syn1 = STDP_reset(net.syn1), !.syn2 = STDP_reset(net.syn2)]

Evt_steps(net, durationMs) == Ceil(durationMs, net.dtMs) + 1

\* the pulse test Math.abs(time - spikeMs) < dtMs / 2
Evt_pulse(net, time, spikeMs) ==
    IF 2 * Abs(time - spikeMs) < net.dtMs THEN net.inputPulseCurrent ELSE 0

\* one iteration of run()'s loop: the network after it and what it records
Evt_iteration(net, pattern, training, i) ==
    LET time == i * net.dtMs
        r1 == LIF_step(net.in1, Evt_pulse(net, time, pattern.pre1SpikeMs), net.dtMs, time)
        r2 == LIF_step(net.in2, Evt_pulse(net, time, pattern.pre2SpikeMs), net.dtMs, time)
        sa == IF r1.spike THEN STDP_onPreSpike(net.syn1, time) ELSE net.syn1
        sb == IF r2.spike THEN STDP_onPreSpike(net.syn2, time) ELSE net.syn2
        iPost == (IF r1.spike THEN sa.w ELSE 0) + (IF r2.spike THEN sb.w ELSE 0)
        ro == LIF_step(net.out, iPost, net.dtMs, time)
        learn == training /\ ro.spike
        sa2 == IF learn THEN STDP_onPostSpike(sa, time) ELSE sa
        sb2 == IF learn THEN STDP_onPostSpike(sb, time) ELSE sb
    IN [net |-> [net EXCEPT !.in1 = r1.n, !.in2 = r2.n, !.out = ro.n,
                            !.syn1 = sa2, !.syn2 = sb2],
        t |-> time, pre1 |-> r1.spike, pre2 |-> r2.spike, post |-> ro.spike,
        vPost |-> ro.n.v, w1 |-> sa2.w, w2 |-> sb2.w]

EvtIdle ==
    [pc |-> "idle", i |-> 0, steps |-> 0, pattern |-> PATTERN_A, durationMs |-> 0,
     training |-> FALSE, runs |-> 0, onlyTrainA |-> TRUE,
     w0 |-> <<0, 0>>, wBefore |-> <<0, 0>>,
     result |-> [t |-> <<>>, pre1 |-> <<>>, pre2 |-> <<>>, post |-> <<>>,
                 vPost |-> <<>>, w1 |-> <<>>, w2 |-> <<>>]]

EvtVarsInit ==
    /\ \E th \in EvtThresholds, w \in EvtInitialW :
          /\ evt = SimpleSTDPNetwork(th, w[1], w[2])
          /\ evtRun = [EvtIdle EXCEPT !.w0 = w]

\* train(pattern, durationMs) / test(pattern, durationMs) entered: run() resets
EvtBegin(pattern, durationMs, training) ==
    /\ evtRun.pc = "idle"
    /\ evtRun.runs < MaxEvtRuns
    /\ UNCHANGED <<trc, trcRun, snn, snnRun, rng, unit, exp, lay, tst>>
    /\ evt' = Evt_resetEpisode(evt)
    /\ evtRun' = [EvtIdle EXCEPT !.pc = "loop",
                     !.steps = Evt_steps(evt, durationMs),
                     !.pattern = pattern, !.durationMs = durationMs,
                     !.training = training,
                     !.runs = evtRun.runs + 1,
                     !.onlyTrainA = evtRun.onlyTrainA /\ training /\ pattern = PATTERN_A,
                     !.w0 = evtRun.w0,
                     !.wBefore = <<evt.syn1.w, evt.syn2.w>>]

EvtTrain == \E p \in EvtPatterns, d \in EvtDurations : EvtBegin(p, d, TRUE)
EvtTest == \E p \in EvtPatterns, d \in EvtDurations : EvtBegin(p, d, FALSE)

EvtStep ==
    /\ evtRun.pc = "loop"
    /\ evtRun.i < evtRun.steps
    /\ UNCHANGED <<trc, trcRun, snn, snnRun, rng, unit, exp, lay, tst>>
    /\ LET it == Evt_iteration(evt, evtRun.pattern, evtRun.training, evtRun.i)
           r == evtRun.result
       IN /\ evt' = it.net
          /\ evtRun' = [evtRun EXCEPT !.i = evtRun.i + 1,
                           !.result = [t |-> Append(r.t, it.t),
                                       pre1 |-> Append(r.pre1, it.pre1),
                                       pre2 |-> Append(r.pre2, it.pre2),
                                       post |-> Append(r.post, it.post),
                                       vPost |-> Append(r.vPost, it.vPost),
                                       w1 |-> Append(r.w1, it.w1),
                                       w2 |-> Append(r.w2, it.w2)]]

EvtReturn ==
    /\ evtRun.pc = "loop"
    /\ evtRun.i >= evtRun.steps
    /\ evtRun' = [evtRun EXCEPT !.pc = "idle"]
    /\ UNCHANGED <<evt, trc, trcRun, snn, snnRun, rng, unit, exp, lay, tst>>

\* ------------------------------------- LIFNeuron with traces (brain/neurons)
\* Times and dt are fixed-point milliseconds here (dt = 0.1 ms is ONE / 10).
TL_tau_m == 20
TL_v_rest == 0 - 65
TL_v_thresh == 0 - 50
TL_v_reset == 0 - 70
TL_r_m == 10
TL_t_ref == 2
TL_tauTrace == 20

TraceLIFNeuron ==
    [v |-> TL_v_rest * ONE, refractoryTimer |-> 0, spikeTimes |-> <<>>,
     tracePos |-> 0, traceNeg |-> 0]

TL_reset(n) ==
    [n EXCEPT !.v = TL_v_rest * ONE, !.refractoryTimer = 0, !.spikeTimes = <<>>,
              !.tracePos = 0, !.traceNeg = 0]

TL_step(n, current, dt, t) ==
    LET tp == n.tracePos - Mul(Quot(n.tracePos, TL_tauTrace), dt)
        tn == n.traceNeg - Mul(Quot(n.traceNeg, TL_tauTrace), dt)
        d == [n EXCEPT !.tracePos = tp, !.traceNeg = tn]
    IN IF n.refractoryTimer > 0
       THEN [n |-> [d EXCEPT !.refractoryTimer = n.refractoryTimer - dt,
                             !.v = TL_v_reset * ONE],
             spike |-> FALSE]
       ELSE LET dv == Quot((0 - (n.v - TL_v_rest * ONE)) + TL_r_m * current, TL_tau_m)
                v1 == n.v + Mul(dv, dt)
            IN IF v1 >= TL_v_thresh * ONE
               THEN [n |-> [d EXCEPT !.v = TL_v_reset * ONE,
                                     !.refractoryTimer = TL_t_ref * ONE,
                                     !.spikeTimes = Append(n.spikeTimes, t),
                                     !.tracePos = tp + ONE, !.traceNeg = tn + ONE],
                     spike |-> TRUE]
               ELSE [n |-> [d EXCEPT !.v = v1], spike |-> FALSE]

TL_injectCurrent(n, amount) ==
    IF n.refractoryTimer <= 0 THEN [n EXCEPT !.v = n.v + amount] ELSE n

\* ------------------------------------- STDPSynapse, trace form (brain/synapses)
TS_pspAmplitude == 15
TS_aPlus == 150
TS_aMinus == 120

TraceSTDPSynapse(weight, wMin, wMax) ==
    [weight |-> weight, wMin |-> wMin, wMax |-> wMax, weightHistory |-> <<weight>>]

\* step(preSpike, postSpike, learning): the synapse and its post neuron afterwards
TS_step(s, pre, post, preSpike, postSpike, learning) ==
    LET post1 == IF preSpike
                 THEN TL_injectCurrent(post, s.weight * TS_pspAmplitude)
                 ELSE post
        w1 == IF preSpike /\ learning
              THEN Max(s.wMin, Min(s.wMax, s.weight - Mul(TS_aMinus, post1.traceNeg)))
              ELSE s.weight
        w2 == IF postSpike /\ learning
              THEN Max(s.wMin, Min(s.wMax, w1 + Mul(TS_aPlus, pre.tracePos)))
              ELSE w1
    IN [s |-> [s EXCEPT !.weight = w2, !.weightHistory = Append(s.weightHistory, w2)],
        post |-> post1]

TS_reset(s) == [s EXCEPT !.weightHistory = <<s.weight>>]

TS_resetFull(s, initialWeight) ==
    [s EXCEPT !.weight = initialWeight, !.weightHistory = <<initialWeight>>]

\* ----------------------------- SimpleSTDPNetwork, trace form (brain/network)
Trc_dt == ONE \div 10
Trc_delay == 10
Trc_baseTime == 5
Trc_pulseWidth == 2
Trc_injectionCurrent == 5
Trc_initialWeight == ONE \div 2

TraceNetwork ==
    [input1 |-> TraceLIFNeuron, input2 |-> TraceLIFNeuron, output |-> TraceLIFNeuron,
     synapse1 |-> TraceSTDPSynapse(Trc_initialWeight, 0, ONE),
     synapse2 |-> TraceSTDPSynapse(Trc_initialWeight, 0, ONE)]

\* _simulate(): the reset at its head
Trc_resetEpisode(net) ==
    [net EXCEPT !.input1 = TL_reset(net.input1), !.input2 = TL_reset(net.input2),
                !.output = TL_reset(net.output),
                !.synapse1 = TS_reset(net.synapse1), !.synapse2 = TS_reset(net.synapse2)]

\* Math.round(duration / dt), duration in whole milliseconds >= 0
Trc_steps(duration) == (2 * duration * ONE + Trc_dt) \div (2 * Trc_dt)

Trc_inWindow(t, from) == t >= from * ONE /\ t < (from + Trc_pulseWidth) * ONE

\* variant of the loop body below: the synapses deliver before the output is stepped
Trc_bodySynapsesFirst(net, i1, i2, dt, t, learning) ==
    LET r1 == TL_step(net.input1, i1, dt, t)
        r2 == TL_step(net.input2, i2, dt, t)
        y1 == TS_step(net.synapse1, r1.n, net.output, r1.spike, FALSE, learning)
        y2 == TS_step(net.synapse2, r2.n, y1.post, r2.spike, FALSE, learning)
        ro == TL_step(y2.post, 0, dt, t)
    IN [net |-> [input1 |-> r1.n, input2 |-> r2.n, output |-> ro.n,
                 synapse1 |-> y1.s, synapse2 |-> y2.s],
        t |-> t, sp1 |-> r1.spike, sp2 |-> r2.spike, spO |-> ro.spike]

\* the loop body of _simulate() from "Step neurons" on: the three neurons are
\* stepped, then the two synapses
Trc_body(net, i1, i2, dt, t, learning) ==
    LET r1 == TL_step(net.input1, i1, dt, t)
        r2 == TL_step(net.input2, i2, dt, t)
        ro == TL_step(net.output, 0, dt, t)
        y1 == TS_step(net.synapse1, r1.n, ro.n, r1.spike, ro.spike, learning)
        y2 == TS_step(net.synapse2, r2.n, y1.post, r2.spike, ro.spike, learning)
    IN [net |-> [input1 |-> r1.n, input2 |-> r2.n, output |-> y2.post,
                 synapse1 |-> y1.s, synapse2 |-> y2.s],
        t |-> t, sp1 |-> r1.spike, sp2 |-> r2.spike, spO |-> ro.spike]

\* one iteration of _simulate()'s loop
Trc_iteration(net, pattern, learning, st) ==
    LET t == st * Trc_dt
        early == IF Trc_inWindow(t, Trc_baseTime) THEN Trc_injectionCurrent * ONE ELSE 0
        late == IF Trc_inWindow(t, Trc_baseTime + Trc_delay)
                THEN Trc_injectionCurrent * ONE ELSE 0
        i1 == IF pattern = "A" THEN early ELSE late
        i2 == IF pattern = "A" THEN late ELSE early
    IN Trc_body(net, i1, i2, Trc_dt, t, learning)

EmptyRecord ==
    [time |-> <<>>, v_out |-> <<>>, spikes_in1 |-> <<>>, spikes_in2 |-> <<>>,
     spikes_out |-> <<>>, w1 |-> <<>>, w2 |-> <<>>]

\* op: the public call in progress; trainLeft, tests: the _simulate calls it still
\* has to make; record: the SimulationRecord being built; spiked: per finished
\* test, whether spikes_out was non-empty
TrcIdle ==
    [pc |-> "idle", op |-> "none", pattern |-> "A", duration |-> 0, learning |-> FALSE,
     trainLeft |-> 0, tests |-> <<>>, st |-> 0, steps |-> 0,
     record |-> EmptyRecord, spiked |-> <<>>, epochsDone |-> 0, calls |-> 0]

TrcVarsInit ==
    /\ trc = TraceNetwork
    /\ trcRun = TrcIdle

TrcPatterns == {"A", "B"}
TrcDurations == {50}
TrcTrainEpochs == {1}
TrcDemoEpochs == {80}
MaxTrcCalls == 2

TrcEnter(op, pattern, duration, epochs, tests) ==
    /\ trcRun.pc = "idle"
    /\ trcRun.calls < MaxTrcCalls
    /\ trcRun' = [TrcIdle EXCEPT !.pc = "call", !.op = op, !.pattern = pattern,
                     !.duration = duration, !.trainLeft = epochs, !.tests = tests,
                     !.calls = trcRun.calls + 1]

\* train(pattern, duration, epochs)
TrcTrain ==
    \E p \in TrcPatterns, d \in TrcDurations, e \in TrcTrainEpochs :
        /\ TrcEnter("train", p, d, e, <<>>)
        /\ UNCHANGED <<trc, evt, evtRun, snn, snnRun, rng, unit, exp, lay, tst>>

\* test(pattern, duration)
TrcTest ==
    \E p \in TrcPatterns, d \in TrcDurations :
        /\ TrcEnter("test", p, d, 0, <<p>>)
        /\ UNCHANGED <<trc, evt, evtRun, snn, snnRun, rng, unit, exp, lay, tst>>

\* runFullDemo(epochs, duration): resetFull(0.5) on both synapses, then train A,
\* test A, test B
TrcRunFullDemo ==
    \E d \in TrcDurations, e \in TrcDemoEpochs :
        /\ TrcEnter("demo", "A", d, e, <<"A", "B">>)
        /\ trc' = [trc EXCEPT !.synapse1 = TS_resetFull(trc.synapse1, Trc_initialWeight),
                              !.synapse2 = TS_resetFull(trc.synapse2, Trc_initialWeight)]
        /\ UNCHANGED <<evt, evtRun, snn, snnRun, rng, unit, exp, lay, tst>>

\* _simulate(pattern, duration, learning) entered by the call in progress
TrcSimBegin ==
    /\ trcRun.pc = "call"
    /\ trcRun.trainLeft > 0 \/ trcRun.tests # <<>>
    /\ trc' = Trc_resetEpisode(trc)
    /\ trcRun' = [trcRun EXCEPT !.pc = "sim", !.st = 0,
                     !.steps = Trc_steps(trcRun.duration),
                     !.learning = trcRun.trainLeft > 0,
                     !.pattern = IF trcRun.trainLeft > 0 THEN trcRun.pattern
                                 ELSE Head(trcRun.tests),
                     !.record = EmptyRecord]
    /\ UNCHANGED <<evt, evtRun, snn, snnRun, rng, unit, exp, lay, tst>>

TrcSimStep ==
    /\ trcRun.pc = "sim"
    /\ trcRun.st < trcRun.steps
    /\ LET it == Trc_iteration(trc, trcRun.pattern, trcRun.learning, trcRun.st)
           r == trcRun.record
       IN /\ trc' = it.net
          /\ trcRun' = [trcRun EXCEPT !.st = trcRun.st + 1,
                !.record = [time |-> Append(r.time, it.t),
                            v_out |-> Append(r.v_out, it.net.output.v),
                            spikes_in1 |-> IF it.sp1 THEN Append(r.spikes_in1, it.t)
                                           ELSE r.spikes_in1,
                            spikes_in2 |-> IF it.sp2 THEN Append(r.spikes_in2, it.t)
                                           ELSE r.spikes_in2,
                            spikes_out |-> IF it.spO THEN Append(r.spikes_out, it.t)
                                           ELSE r.spikes_out,
                            w1 |-> Append(r.w1, it.net.synapse1.weight),
                            w2 |-> Append(r.w2, it.net.synapse2.weight)]]
    /\ UNCHANGED <<evt, evtRun, snn, snnRun, rng, unit, exp, lay, tst>>

\* _simulate returns to train's loop or to test
TrcSimEnd ==
    /\ trcRun.pc = "sim"
    /\ trcRun.st >= trcRun.steps
    /\ trcRun' =
         IF trcRun.learning
         THEN [trcRun EXCEPT !.pc = "call", !.trainLeft = trcRun.trainLeft - 1,
                             !.epochsDone = trcRun.epochsDone + 1]
         ELSE [trcRun EXCEPT !.pc = "call", !.tests = Tail(trcRun.tests),
                             !.spiked = Append(trcRun.spiked,
                                               Len(trcRun.record.spikes_out) > 0)]
    /\ UNCHANGED <<trc, evt, evtRun, snn, snnRun, rng, unit, exp, lay, tst>>

TrcReturn ==
    /\ trcRun.pc = "call"
    /\ trcRun.trainLeft = 0 /\ trcRun.tests = <<>>
    /\ trcRun' = [trcRun EXCEPT !.pc = "idle"]
    /\ UNCHANGED <<trc, evt, evtRun, snn, snnRun, rng, unit, exp, lay, tst>>

\* ------------------------------------- AdaptiveLIFNeuron (neurons/adaptive)
ALIF_tauMs == 20
ALIF_refractoryMs == 2
ALIF_tauAdapt == 100
ALIF_bAdapt == 500

ALIFParams(tauMs, vThreshold, refractoryMs, tauAdapt, bAdapt) ==
    [tauMs |-> tauMs, vRest |-> 0, vReset |-> 0, vThreshold |-> vThreshold,
     refractoryMs |-> refractoryMs, tauAdapt |-> tauAdapt, bAdapt |-> bAdapt]

AdaptiveLIFNeuron(p) ==
    [v |-> p.vRest, adaptation |-> 0, tLastSpike |-> NegInf, spikeCount |-> 0, p |-> p]

ALIF_reset(n) ==
    [n EXCEPT !.v = n.p.vRest, !.adaptation = 0, !.tLastSpike = NegInf,
              !.spikeCount = 0]

ALIF_step(n, inputCurrent, dtMs, tMs) ==
    LET p == n.p IN
    IF n.tLastSpike # NegInf /\ tMs - n.tLastSpike < p.refractoryMs
    THEN [n |-> [n EXCEPT !.v = p.vReset], spike |-> FALSE]
    ELSE LET a1 == n.adaptation + Quot(0 - n.adaptation, p.tauAdapt) * dtMs
             dv == (Quot(0 - (n.v - p.vRest), p.tauMs) + inputCurrent - a1) * dtMs
             v1 == n.v + dv
         IN IF v1 >= p.vThreshold
            THEN [n |-> [n EXCEPT !.v = p.vReset, !.tLastSpike = tMs,
                                  !.adaptation = a1 + p.bAdapt,
                                  !.spikeCount = n.spikeCount + 1],
                  spike |-> TRUE]
            ELSE [n |-> [n EXCEPT !.v = v1, !.adaptation = a1], spike |-> FALSE]

\* ------------------------------------- IzhikevichNeuron (neurons/izhikevich)
\* built with its defaults; v and u are fixed-point
Izh_a == 200
Izh_b == 2000
Izh_c == 0 - 65
Izh_d == 8
Izh_vPeak == 30

IzhikevichNeuron ==
    [v |-> Izh_c * ONE, u |-> Mul(Izh_b, Izh_c * ONE), tLastSpike |-> NegInf,
     spikeCount |-> 0]

Izh_reset(n) ==
    [n EXCEPT !.v = Izh_c * ONE, !.u = Mul(Izh_b, Izh_c * ONE), !.tLastSpike = NegInf,
              !.spikeCount = 0]

\* substeps = Math.max(1, Math.round(dt / 0.5)) for a whole number of milliseconds
Izh_substeps(dtMs) == Max(1, 2 * dtMs)

\* the Euler loop from substep k on; 0.04 v^2 is computed as (v/100)^2 / 25 and
\* dv * h as dv * dt / substeps to stay within 32 bits
RECURSIVE Izh_loop(_, _, _, _, _)
Izh_loop(n, inputCurrent, dtMs, tMs, k) ==
    IF k >= Izh_substeps(dtMs) THEN [n |-> n, spike |-> FALSE]
    ELSE LET sq == Quot(n.v, 100) * Quot(n.v, 100)
             dv == Quot(sq, 25) + 5 * n.v + 140 * ONE - n.u + inputCurrent
             du == Mul(Izh_a, Mul(Izh_b, n.v) - n.u)
             v1 == n.v + Quot(dv * dtMs, Izh_substeps(dtMs))
             u1 == n.u + Quot(du * dtMs, Izh_substeps(dtMs))
         IN IF v1 >= Izh_vPeak * ONE
            THEN [n |-> [v |-> Izh_c * ONE, u |-> u1 + Izh_d * ONE, tLastSpike |-> tMs,
                         spikeCount |-> n.spikeCount + 1],
                  spike |-> TRUE]
            ELSE Izh_loop([n EXCEPT !.v = v1, !.u = u1], inputCurrent, dtMs, tMs, k + 1)

Izh_step(n, inputCurrent, dtMs, tMs) == Izh_loop(n, inputCurrent, dtMs, tMs, 0)

\* ------------------------------------- BurstingNeuron (neurons/bursting)
Burst_tauMs == 20
Burst_refractoryMs == 1
Burst_burstSize == 3
Burst_intraBurstInterval == 3
Burst_tauBurst == 200
Burst_bBurst == 1500

BurstParams(refractoryMs, burstSize, intraBurstInterval) ==
    [tauMs |-> Burst_tauMs, vRest |-> 0, vReset |-> 0, vThreshold |-> ONE,
     refractoryMs |-> refractoryMs, burstSize |-> burstSize,
     intraBurstInterval |-> intraBurstInterval, tauBurst |-> Burst_tauBurst,
     bBurst |-> Burst_bBurst]

BurstingNeuron(p) ==
    [v |-> p.vRest, burstVar |-> 0, tLastSpike |-> NegInf, spikeCount |-> 0,
     burstRemaining |-> 0, burstTimer |-> 0, p |-> p]

\* a reset that leaves the burst sub-state as it is
Burst_resetKeepsBurst(n) ==
    [n EXCEPT !.v = n.p.vRest, !.burstVar = 0, !.tLastSpike = NegInf, !.spikeCount = 0]

Burst_reset(n) ==
    [n EXCEPT !.v = n.p.vRest, !.burstVar = 0, !.tLastSpike = NegInf, !.spikeCount = 0,
              !.burstRemaining = 0, !.burstTimer = 0]

\* step(): p.refractoryMs is not among the parameters it reads
\* a step that keeps integrating the input between the spikes of a burst
Burst_stepIntegratesInBurst(n, inputCurrent, dtMs, tMs) ==
    LET p == n.p
        b1 == n.burstVar + Quot(0 - n.burstVar, p.tauBurst) * dtMs
    IN IF n.burstRemaining > 0
       THEN IF n.burstTimer - dtMs <= 0
            THEN [n |-> [n EXCEPT !.burstVar = b1,
                                  !.burstRemaining = n.burstRemaining - 1,
                                  !.burstTimer = p.intraBurstInterval,
                                  !.tLastSpike = tMs,
                                  !.spikeCount = n.spikeCount + 1,
                                  !.v = p.vReset],
                  spike |-> TRUE]
            ELSE [n |-> [n EXCEPT !.burstVar = b1, !.burstTimer = n.burstTimer - dtMs,
                                  !.v = n.v + inputCurrent * dtMs],
                  spike |-> FALSE]
       ELSE LET dv == (Quot(0 - (n.v - p.vRest), p.tauMs) + inputCurrent - b1) * dtMs
                v1 == n.v + dv
            IN IF v1 >= p.vThreshold
               THEN [n |-> [n EXCEPT !.v = p.vReset, !.tLastSpike = tMs,
                                     !.spikeCount = n.spikeCount + 1,
                                     !.burstVar = b1 + p.bBurst,
                                     !.burstRemaining = p.burstSize - 1,
                                     !.burstTimer = p.intraBurstInterval],
                     spike |-> TRUE]
               ELSE [n |-> [n EXCEPT !.v = v1, !.burstVar = b1], spike |-> FALSE]

Burst_step(n, inputCurrent, dtMs, tMs) ==
    LET p == n.p
        b1 == n.burstVar + Quot(0 - n.burstVar, p.tauBurst) * dtMs
    IN IF n.burstRemaining > 0
       THEN IF n.burstTimer - dtMs <= 0
            THEN [n |-> [n EXCEPT !.burstVar = b1,
                                  !.burstRemaining = n.burstRemaining - 1,
                                  !.burstTimer = p.intraBurstInterval,
                                  !.tLastSpike = tMs,
                                  !.spikeCount = n.spikeCount + 1,
                                  !.v = p.vReset],
                  spike |-> TRUE]
            ELSE [n |-> [n EXCEPT !.burstVar = b1, !.burstTimer = n.burstTimer - dtMs],
                  spike |-> FALSE]
       ELSE LET dv == (Quot(0 - (n.v - p.vRest), p.tauMs) + inputCurrent - b1) * dtMs
                v1 == n.v + dv
            IN IF v1 >= p.vThreshold
               THEN [n |-> [n EXCEPT !.v = p.vReset, !.tLastSpike = tMs,
                                     !.spikeCount = n.spikeCount + 1,
                                     !.burstVar = b1 + p.bBurst,
                                     !.burstRemaining = p.burstSize - 1,
                                     !.burstTimer = p.intraBurstInterval],
                     spike |-> TRUE]
               ELSE [n |-> [n EXCEPT !.v = v1, !.burstVar = b1], spike |-> FALSE]

\* ------------------------------------- InhibitorySynapse (synapses/inhibitory)
Inh_w == 8000
Inh_tauDecay == 5

InhibitorySynapse(w, tauDecay) ==
    [w |-> w, inhibitoryCurrent |-> 0, tauDecay |-> tauDecay]

Inh_reset(s) == [s EXCEPT !.inhibitoryCurrent = 0]
Inh_decay(s, dtMs) ==
    [s EXCEPT !.inhibitoryCurrent = Mul(s.inhibitoryCurrent, ExpNeg(dtMs, s.tauDecay))]
Inh_onPreSpike(s) == [s EXCEPT !.inhibitoryCurrent = s.inhibitoryCurrent + s.w]
\* variant: the charge of the synapse excites its target
Inh_getCurrentExcites(s) == s.inhibitoryCurrent
Inh_getCurrent(s) == 0 - s.inhibitoryCurrent

\* ------------------------------------- RecurrentSynapse (synapses/recurrent)
Rec_w == 3000
Rec_tauFacilitation == 200
Rec_tauDepression == 500
Rec_uFacilitation == 2000
Rec_delayMs == 1

RecurrentSynapse(w, delayMs) ==
    [w |-> w, facilitation |-> Rec_uFacilitation, depression |-> ONE,
     delayBuffer |-> <<>>, delayMs |-> delayMs]

Rec_reset(s) ==
    [s EXCEPT !.facilitation = Rec_uFacilitation, !.depression = ONE,
              !.delayBuffer = <<>>]

Rec_decayVariables(s, dtMs) ==
    [s EXCEPT
       !.facilitation = s.facilitation
            + Quot(Rec_uFacilitation - s.facilitation, Rec_tauFacilitation) * dtMs,
       !.depression = s.depression + Quot(ONE - s.depression, Rec_tauDepression) * dtMs]

\* onPreSpike with depression consumed before the strength is computed
Rec_onPreSpikeDepressFirst(s, tMs) ==
    LET f == s.facilitation + Mul(Rec_uFacilitation, ONE - s.facilitation)
        d == Mul(s.depression, ONE - f)
    IN [s EXCEPT !.facilitation = f,
                 !.depression = d,
                 !.delayBuffer = Append(s.delayBuffer,
                                        [time |-> tMs + s.delayMs,
                                         strength |-> Mul(Mul(s.w, f), d)])]

Rec_onPreSpike(s, tMs) ==
    LET f == s.facilitation + Mul(Rec_uFacilitation, ONE - s.facilitation)
        effectiveW == Mul(Mul(s.w, f), s.depression)
    IN [s EXCEPT !.facilitation = f,
                 !.depression = Mul(s.depression, ONE - f),
                 !.delayBuffer = Append(s.delayBuffer,
                                        [time |-> tMs + s.delayMs, strength |-> effectiveW])]

RECURSIVE SumStrength(_)
SumStrength(items) ==
    IF items = <<>> THEN 0 ELSE Head(items).strength + SumStrength(Tail(items))

\* a getCurrent that hands over everything queued, arrived or not
Rec_getCurrentDrainAll(s, tMs) ==
    [current |-> SumStrength(s.delayBuffer), s |-> [s EXCEPT !.delayBuffer = <<>>]]

\* a getCurrent that hands an item over only after its arrival time has passed
Rec_getCurrentLate(s, tMs) ==
    LET arrived == SelectSeq(s.delayBuffer, LAMBDA it : tMs > it.time)
        remaining == SelectSeq(s.delayBuffer, LAMBDA it : ~(tMs > it.time))
    IN [current |-> SumStrength(arrived), s |-> [s EXCEPT !.delayBuffer = remaining]]

\* getCurrent(tMs): the current returned and the synapse with the arrived items removed
Rec_getCurrent(s, tMs) ==
    LET arrived == SelectSeq(s.delayBuffer, LAMBDA it : tMs >= it.time)
        remaining == SelectSeq(s.delayBuffer, LAMBDA it : ~(tMs >= it.time))
    IN [current |-> SumStrength(arrived), s |-> [s EXCEPT !.delayBuffer = remaining]]

\* ------------------------------ HomeostaticSTDPSynapse (synapses/homeostatic_stdp)
Homeo_wMin == 100
Homeo_windowMs == 1000
Homeo_factorMin == 1000
Homeo_factorMax == 30000
Homeo_tauTrace == 20

HomeostaticSTDPSynapse(w, wMax, aPlus, aMinus, targetRate, homeoStrength) ==
    [w |-> w, tracePre |-> 0, tracePost |-> 0, homeoFactor |-> ONE,
     postSpikeHistory |-> <<>>,
     p |-> [w |-> w, wMin |-> Homeo_wMin, wMax |-> wMax, aPlus |-> aPlus,
            aMinus |-> aMinus, targetRate |-> targetRate,
            homeoStrength |-> homeoStrength]]

\* a reset that leaves the homeostatic factor as it is
Homeo_resetKeepsFactor(s) ==
    [s EXCEPT !.tracePre = 0, !.tracePost = 0, !.postSpikeHistory = <<>>]

Homeo_reset(s) ==
    [s EXCEPT !.tracePre = 0, !.tracePost = 0, !.homeoFactor = ONE,
              !.postSpikeHistory = <<>>]

Homeo_clamp(s) == [s EXCEPT !.w = Max(s.p.wMin, Min(s.p.wMax, s.w))]

Homeo_decayTraces(s, dtMs) ==
    [s EXCEPT !.tracePre = Mul(s.tracePre, ExpNeg(dtMs, Homeo_tauTrace)),
              !.tracePost = Mul(s.tracePost, ExpNeg(dtMs, Homeo_tauTrace))]

\* the same update without the final Math.max / Math.min
Homeo_updateUnclamped(s, tMs) ==
    LET hist == SelectSeq(s.postSpikeHistory, LAMBDA t : tMs - t < Homeo_windowMs)
    IN [s EXCEPT !.postSpikeHistory = hist,
                 !.homeoFactor = s.homeoFactor
                                   + s.p.homeoStrength * (s.p.targetRate - Len(hist))]

Homeo_updateHomeostasis(s, tMs) ==
    LET hist == SelectSeq(s.postSpikeHistory, LAMBDA t : tMs - t < Homeo_windowMs)
        currentRate == Len(hist)
        error == s.p.targetRate - currentRate
        f == s.homeoFactor + s.p.homeoStrength * error
    IN [s EXCEPT !.postSpikeHistory = hist,
                 !.homeoFactor = Max(Homeo_factorMin, Min(Homeo_factorMax, f))]

\* a presynaptic event that depresses by the post trace with a bump of 1 already
\* added to it
Homeo_onPreSpikeAfterBump(s, tMs) ==
    LET dw == 0 - Mul(Mul(s.p.aMinus, s.tracePost + ONE), s.homeoFactor)
        c == Homeo_clamp([s EXCEPT !.w = s.w + dw])
    IN [c EXCEPT !.tracePre = s.tracePre + ONE]

Homeo_onPreSpike(s, tMs) ==
    LET dw == 0 - Mul(Mul(s.p.aMinus, s.tracePost), s.homeoFactor)
        c == Homeo_clamp([s EXCEPT !.w = s.w + dw])
    IN [c EXCEPT !.tracePre = s.tracePre + ONE]

Homeo_onPostSpike(s, tMs) ==
    LET dw == Mul(Mul(s.p.aPlus, s.tracePre), s.homeoFactor)
        c == Homeo_clamp([s EXCEPT !.w = s.w + dw])
    IN [c EXCEPT !.tracePost = s.tracePost + ONE,
                 !.postSpikeHistory = Append(s.postSpikeHistory, tMs)]

\* ---------------------------------------- SpikingLayer (layers/spiking_layer)
Idx(n) == 0 .. (n - 1)

\* f[0] + ... + f[n-1]
RECURSIVE SumFn(_, _)
SumFn(f, n) == IF n <= 0 THEN 0 ELSE f[n - 1] + SumFn(f, n - 1)

\* a layer whose diagonal synapses carry the lateral weight as well
SpikingLayerSelfInhibiting(size, neuronParams, inhibitionW, inhibitionTau, enableInhibition) ==
    [size |-> size, enableInhibition |-> enableInhibition,
     neurons |-> [i \in Idx(size) |-> AdaptiveLIFNeuron(neuronParams)],
     inhibitorySynapses |->
        [i \in Idx(size) |-> [j \in Idx(size) |->
            InhibitorySynapse(inhibitionW, inhibitionTau)]],
     spikeHistory |-> <<>>,
     totalSpikesPerNeuron |-> [i \in Idx(size) |-> 0]]

SpikingLayer(size, neuronParams, inhibitionW, inhibitionTau, enableInhibition) ==
    [size |-> size, enableInhibition |-> enableInhibition,
     neurons |-> [i \in Idx(size) |-> AdaptiveLIFNeuron(neuronParams)],
     inhibitorySynapses |->
        [i \in Idx(size) |-> [j \in Idx(size) |->
            IF i = j THEN InhibitorySynapse(0, Inh_tauDecay)
            ELSE InhibitorySynapse(inhibitionW, inhibitionTau)]],
     spikeHistory |-> <<>>,
     totalSpikesPerNeuron |-> [i \in Idx(size) |-> 0]]

\* a reset that leaves the per-neuron totals as they are
Layer_resetKeepsTotals(L) ==
    [L EXCEPT !.neurons = [i \in Idx(L.size) |-> ALIF_reset(L.neurons[i])],
              !.inhibitorySynapses =
                  [i \in Idx(L.size) |-> [j \in Idx(L.size) |->
                      Inh_reset(L.inhibitorySynapses[i][j])]],
              !.spikeHistory = <<>>]

Layer_reset(L) ==
    [L EXCEPT !.neurons = [i \in Idx(L.size) |-> ALIF_reset(L.neurons[i])],
              !.inhibitorySynapses =
                  [i \in Idx(L.size) |-> [j \in Idx(L.size) |->
                      Inh_reset(L.inhibitorySynapses[i][j])]],
              !.spikeHistory = <<>>,
              !.totalSpikesPerNeuron = [i \in Idx(L.size) |-> 0]]

\* a step in which the spikes of this step inhibit within the step: the synapses
\* are charged by the spikes first, and the neurons are stepped on the recomputed
\* inhibition
Layer_stepInhibitsAtOnce(L, inputCurrents, dtMs, tMs) ==
    LET N == Idx(L.size)
        syn1 == [i \in N |-> [j \in N |->
                    IF L.enableInhibition /\ i # j
                    THEN Inh_decay(L.inhibitorySynapses[i][j], dtMs)
                    ELSE L.inhibitorySynapses[i][j]]]
        before == [j \in N |->
                    SumFn([i \in N |-> IF i # j THEN Inh_getCurrent(syn1[i][j]) ELSE 0],
                          L.size)]
        first == [i \in N |-> ALIF_step(L.neurons[i], inputCurrents[i] + before[i],
                                        dtMs, tMs).spike]
        syn2 == [i \in N |-> [j \in N |->
                    IF L.enableInhibition /\ i # j /\ first[i]
                    THEN Inh_onPreSpike(syn1[i][j]) ELSE syn1[i][j]]]
        inhibitions == [j \in N |->
                    SumFn([i \in N |-> IF i # j THEN Inh_getCurrent(syn2[i][j]) ELSE 0],
                          L.size)]
        r == [i \in N |-> ALIF_step(L.neurons[i], inputCurrents[i] + inhibitions[i],
                                    dtMs, tMs)]
        spikes == [i \in N |-> r[i].spike]
    IN [L |-> [L EXCEPT !.neurons = [i \in N |-> r[i].n],
                        !.inhibitorySynapses = syn2,
                        !.spikeHistory = Append(L.spikeHistory, spikes),
                        !.totalSpikesPerNeuron =
                            [i \in N |-> L.totalSpikesPerNeuron[i]
                                         + (IF spikes[i] THEN 1 ELSE 0)]],
        spikes |-> spikes,
        voltages |-> [i \in N |-> r[i].n.v],
        inhibitions |-> inhibitions,
        totalSpikes |-> Cardinality({i \in N : spikes[i]})]

\* step(inputCurrents, dtMs, tMs): the layer afterwards and the LayerState returned
Layer_step(L, inputCurrents, dtMs, tMs) ==
    LET N == Idx(L.size)
        \* inhibitory currents from previous spikes
        syn1 == [i \in N |-> [j \in N |->
                    IF L.enableInhibition /\ i # j
                    THEN Inh_decay(L.inhibitorySynapses[i][j], dtMs)
                    ELSE L.inhibitorySynapses[i][j]]]
        inhibitions == [j \in N |->
                    IF L.enableInhibition
                    THEN SumFn([i \in N |-> IF i # j THEN Inh_getCurrent(syn1[i][j]) ELSE 0],
                               L.size)
                    ELSE 0]
        \* step neurons
        r == [i \in N |-> ALIF_step(L.neurons[i], inputCurrents[i] + inhibitions[i],
                                    dtMs, tMs)]
        spikes == [i \in N |-> r[i].spike]
        \* lateral inhibition from the neurons that spiked
        syn2 == [i \in N |-> [j \in N |->
                    IF L.enableInhibition /\ i # j /\ spikes[i]
                    THEN Inh_onPreSpike(syn1[i][j])
                    ELSE syn1[i][j]]]
    IN [L |-> [L EXCEPT !.neurons = [i \in N |-> r[i].n],
                        !.inhibitorySynapses = syn2,
                        !.spikeHistory = Append(L.spikeHistory, spikes),
                        !.totalSpikesPerNeuron =
                            [i \in N |-> L.totalSpikesPerNeuron[i]
                                         + (IF spikes[i] THEN 1 ELSE 0)]],
        spikes |-> spikes,
        voltages |-> [i \in N |-> r[i].n.v],
        inhibitions |-> inhibitions,
        totalSpikes |-> Cardinality({i \in N : spikes[i]})]

\* rates over the nominal window: the count divided by windowSteps * dtMs
Layer_ratesOverWindow(L, windowSteps, dtMs) ==
    LET n == Len(L.spikeHistory)
        start == Max(0, n - windowSteps)
    IN [i \in Idx(L.size) |->
          IF n = start THEN 0
          ELSE Quot(Cardinality({t \in (start + 1) .. n : L.spikeHistory[t][i]})
                      * 1000 * ONE, windowSteps * dtMs)]

\* getFiringRates(windowSteps, dtMs): spikes per 1000 ms, fixed-point
Layer_getFiringRates(L, windowSteps, dtMs) ==
    LET n == Len(L.spikeHistory)
        start == Max(0, n - windowSteps)
        len == n - start
    IN [i \in Idx(L.size) |->
          IF len = 0 THEN 0
          ELSE Quot(Cardinality({t \in (start + 1) .. n : L.spikeHistory[t][i]})
                      * 1000 * ONE, len * dtMs)]

\* --------------------------------------------- Math.random and its stand-in
\* runExperiment's seededRandom: seedVal = (seedVal * 16807) % 2147483647, computed
\* without leaving 32 bits (Schrage's decomposition gives the same residue).
Lcg_a == 16807
Lcg_m == 2147483647

LcgNext(seedVal) ==
    LET q == Lcg_m \div Lcg_a
        r == Lcg_m % Lcg_a
        t == Lcg_a * (seedVal % q) - r * (seedVal \div q)
    IN IF t < 0 THEN t + Lcg_m ELSE t

\* seedVal / 2147483647 as a fixed-point number in [0, 1)
LcgValue(seedVal) == seedVal \div ((Lcg_m \div ONE) + 1)

\* the generator state after k calls
RECURSIVE LcgIter(_, _)
LcgIter(seedVal, k) == IF k <= 0 THEN seedVal ELSE LcgIter(LcgNext(seedVal), k - 1)

\* A random source is [kind, state].  kind "seeded" is seededRandom; kind "native"
\* is the engine's own Math.random, a generator whose hidden state the program
\* cannot set: any value of NativeStates.
NativeStates == {12345, 2000000011}
RandomDraw(source, k) == LcgValue(LcgIter(source.state, k))

\* ------------------------------------------- RecurrentSNN (networks/recurrent_snn)
SNN_inputPulseCurrent == 15000
SNN_inTauMs == 10
SNN_inRefractoryMs == 1
SNN_layerTauMs == 20
SNN_layerRefractoryMs == 3
SNN_hiddenBAdapt == 300
SNN_outputBAdapt == 200
SNN_recDelayMs == 2
SNN_homeoEvery == 50
SNN_rateWindow == 100

\* RecurrentSNNParams with every default of the constructor filled in
SNNDefaults(nInput, nHidden, nOutput) ==
    [nInput |-> nInput, nHidden |-> nHidden, nOutput |-> nOutput, dtMs |-> 1,
     hiddenThreshold |-> 8000, outputThreshold |-> 7000,
     initialW |-> 4000, wMax |-> 2 * ONE, aPlus |-> 80, aMinus |-> 90,
     targetRateIH |-> 8, targetRateHO |-> 5, homeoStrength |-> 5,
     inhibitionWHidden |-> 6000, inhibitionWOutput |-> 8000,
     recurrentW |-> 1000, enableRecurrent |-> TRUE]

\* w0 = wInit * (0.8 + Math.random() * 0.4), Math.random() being the k-th call
SNN_jitter(wInit, source, k) ==
    Mul(wInit, (8 * ONE) \div 10 + Mul(RandomDraw(source, k), (4 * ONE) \div 10))

\* constructor(params), with Math.random bound to `source` while it runs
RecurrentSNN(params, source) ==
    LET nI == params.nInput
        nH == params.nHidden
        nO == params.nOutput
    IN [nInput |-> nI, nHidden |-> nH, nOutput |-> nO, dtMs |-> params.dtMs,
        enableRecurrent |-> params.enableRecurrent,
        inputPulseCurrent |-> SNN_inputPulseCurrent,
        inputNeurons |-> [i \in Idx(nI) |->
            AdaptiveLIFNeuron(ALIFParams(SNN_inTauMs, ONE, SNN_inRefractoryMs,
                                         ALIF_tauAdapt, 0))],
        hiddenLayer |-> SpikingLayer(nH,
            ALIFParams(SNN_layerTauMs, params.hiddenThreshold, SNN_layerRefractoryMs,
                       ALIF_tauAdapt, SNN_hiddenBAdapt),
            params.inhibitionWHidden, Inh_tauDecay, TRUE),
        outputLayer |-> SpikingLayer(nO,
            ALIFParams(SNN_layerTauMs, params.outputThreshold, SNN_layerRefractoryMs,
                       ALIF_tauAdapt, SNN_outputBAdapt),
            params.inhibitionWOutput, Inh_tauDecay, TRUE),
        synapsesIH |-> [i \in Idx(nI) |-> [h \in Idx(nH) |->
            HomeostaticSTDPSynapse(SNN_jitter(params.initialW, source, i * nH + h + 1),
                params.wMax, params.aPlus, params.aMinus, params.targetRateIH,
                params.homeoStrength)]],
        synapsesHO |-> [h \in Idx(nH) |-> [o \in Idx(nO) |->
            HomeostaticSTDPSynapse(
                SNN_jitter(params.initialW, source, nI * nH + h * nO + o + 1),
                params.wMax, params.aPlus, params.aMinus, params.targetRateHO,
                params.homeoStrength)]],
        recurrentSynapses |-> [i \in Idx(nH) |-> [j \in Idx(nH) |->
            IF i = j THEN RecurrentSynapse(0, Rec_delayMs)
            ELSE RecurrentSynapse(params.recurrentW, SNN_recDelayMs)]]]

SNN_draws(params) == params.nInput * params.nHidden + params.nHidden * params.nOutput

\* a reset block that also puts every plastic weight back to its constructed value
SNN_resetStateAndWeights(net) ==
    [net EXCEPT
       !.inputNeurons = [i \in Idx(net.nInput) |-> ALIF_reset(net.inputNeurons[i])],
       !.hiddenLayer = Layer_reset(net.hiddenLayer),
       !.outputLayer = Layer_reset(net.outputLayer),
       !.synapsesIH = [i \in Idx(net.nInput) |-> [h \in Idx(net.nHidden) |->
           [Homeo_reset(net.synapsesIH[i][h]) EXCEPT !.w = net.synapsesIH[i][h].p.w]]],
       !.synapsesHO = [h \in Idx(net.nHidden) |-> [o \in Idx(net.nOutput) |->
           [Homeo_reset(net.synapsesHO[h][o]) EXCEPT !.w = net.synapsesHO[h][o].p.w]]],
       !.recurrentSynapses = [i \in Idx(net.nHidden) |-> [j \in Idx(net.nHidden) |->
                          Rec_reset(net.recurrentSynapses[i][j])]]]

\* run(): the reset block at its head (the same statements as resetState())
SNN_resetState(net) ==
    [net EXCEPT
       !.inputNeurons = [i \in Idx(net.nInput) |-> ALIF_reset(net.inputNeurons[i])],
       !.hiddenLayer = Layer_reset(net.hiddenLayer),
       !.outputLayer = Layer_reset(net.outputLayer),
       !.synapsesIH = [i \in Idx(net.nInput) |-> [h \in Idx(net.nHidden) |->
                          Homeo_reset(net.synapsesIH[i][h])]],
       !.synapsesHO = [h \in Idx(net.nHidden) |-> [o \in Idx(net.nOutput) |->
                          Homeo_reset(net.synapsesHO[h][o])]],
       !.recurrentSynapses = [i \in Idx(net.nHidden) |-> [j \in Idx(net.nHidden) |->
                          Rec_reset(net.recurrentSynapses[i][j])]]]

\* a step count without the step at time 0
SNN_stepsWithoutFirst(net, durationMs) == Ceil(durationMs, net.dtMs)

SNN_steps(net, durationMs) == Ceil(durationMs, net.dtMs) + 1

\* Math.abs(time - pattern.spikeTimes[i]) < dtMs / 2; a missing entry is undefined,
\* the difference NaN and the comparison false
SNN_pulse(net, spikeTimes, i, time) ==
    IF i + 1 <= Len(spikeTimes) /\ 2 * Abs(time - spikeTimes[i + 1]) < net.dtMs
    THEN net.inputPulseCurrent ELSE 0

\* row-major flattening of an n x m matrix of synapses to a sequence of one field
FlatW(f, n, m) == [k \in 1 .. (n * m) |-> f[(k - 1) \div m][(k - 1) % m].w]
FlatHomeo(f, n, m) == [k \in 1 .. (n * m) |-> f[(k - 1) \div m][(k - 1) % m].homeoFactor]

\* a post event registered whenever the postsynaptic neuron spiked, training or not
SNN_postEventAlways(syn, training, postSpiked, time) ==
    IF postSpiked THEN Homeo_onPostSpike(syn, time) ELSE syn

\* steps 7 and 11 of run(), for one feed-forward synapse: onPostSpike(time) when
\* training is set and the synapse's postsynaptic neuron spiked in this step
SNN_postEvent(syn, training, postSpiked, time) ==
    IF training /\ postSpiked THEN Homeo_onPostSpike(syn, time) ELSE syn

\* one iteration of run()'s loop (its numbered steps 1-12 and the recording)
SNN_iteration(net, spikeTimes, training, step) ==
    LET I == Idx(net.nInput)
        H == Idx(net.nHidden)
        O == Idx(net.nOutput)
        dt == net.dtMs
        time == step * dt
        \* 1. input spikes
        rin == [i \in I |-> ALIF_step(net.inputNeurons[i],
                                      SNN_pulse(net, spikeTimes, i, time), dt, time)]
        inSpikes == [i \in I |-> rin[i].spike]
        \* 2. decay traces on all synapses
        ih2 == [i \in I |-> [h \in H |-> Homeo_decayTraces(net.synapsesIH[i][h], dt)]]
        ho2 == [h \in H |-> [o \in O |-> Homeo_decayTraces(net.synapsesHO[h][o], dt)]]
        \* 3. pre-spikes on IH synapses
        ih3 == [i \in I |-> [h \in H |->
                  IF inSpikes[i] THEN Homeo_onPreSpike(ih2[i][h], time) ELSE ih2[i][h]]]
        \* 4. hidden input currents; recurrent synapses j -> h decay and deliver
        got == [j \in H |-> [h \in H |->
                  IF net.enableRecurrent /\ j # h
                  THEN Rec_getCurrent(Rec_decayVariables(net.recurrentSynapses[j][h], dt),
                                      time)
                  ELSE [current |-> 0, s |-> net.recurrentSynapses[j][h]]]]
        recurrentCurrents == [h \in H |->
                  SumFn([j \in H |-> got[j][h].current], net.nHidden)]
        hiddenCurrents == [h \in H |->
                  SumFn([i \in I |-> IF inSpikes[i] THEN ih3[i][h].w ELSE 0], net.nInput)
                  + recurrentCurrents[h]]
        \* 5. step hidden layer
        hid == Layer_step(net.hiddenLayer, hiddenCurrents, dt, time)
        \* 6. recurrent pre-spikes
        rec6 == [i \in H |-> [j \in H |->
                  IF net.enableRecurrent /\ i # j /\ hid.spikes[i]
                  THEN Rec_onPreSpike(got[i][j].s, time) ELSE got[i][j].s]]
        \* 7. STDP: hidden post-spikes update IH synapses
        ih7 == [i \in I |-> [h \in H |->
                  SNN_postEvent(ih3[i][h], training, hid.spikes[h], time)]]
        \* 8. pre-spikes on HO synapses
        ho8 == [h \in H |-> [o \in O |->
                  IF hid.spikes[h] THEN Homeo_onPreSpike(ho2[h][o], time) ELSE ho2[h][o]]]
        \* 9. output input currents
        outputCurrents == [o \in O |->
                  SumFn([h \in H |-> IF hid.spikes[h] THEN ho8[h][o].w ELSE 0],
                        net.nHidden)]
        \* 10. step output layer
        out == Layer_step(net.outputLayer, outputCurrents, dt, time)
        \* 11. STDP: output post-spikes update HO synapses
        ho11 == [h \in H |-> [o \in O |->
                  SNN_postEvent(ho8[h][o], training, out.spikes[o], time)]]
        \* 12. homeostasis update
        homeo == training /\ step % SNN_homeoEvery = 0
        ih12 == [i \in I |-> [h \in H |->
                  IF homeo THEN Homeo_updateHomeostasis(ih7[i][h], time) ELSE ih7[i][h]]]
        ho12 == [h \in H |-> [o \in O |->
                  IF homeo THEN Homeo_updateHomeostasis(ho11[h][o], time) ELSE ho11[h][o]]]
        net2 == [net EXCEPT !.inputNeurons = [i \in I |-> rin[i].n],
                            !.hiddenLayer = hid.L, !.outputLayer = out.L,
                            !.synapsesIH = ih12, !.synapsesHO = ho12,
                            !.recurrentSynapses = rec6]
    IN [net |-> net2, t |-> time,
        inputSpikes |-> inSpikes, hiddenSpikes |-> hid.spikes,
        outputSpikes |-> out.spikes,
        hiddenV |-> hid.voltages, outputV |-> out.voltages,
        weightsIH |-> FlatW(ih12, net.nInput, net.nHidden),
        weightsHO |-> FlatW(ho12, net.nHidden, net.nOutput),
        homeoFactors |-> FlatHomeo(ih12, net.nInput, net.nHidden),
        firingRates |-> Layer_getFiringRates(hid.L, SNN_rateWindow, dt),
        hiddenCurrents |-> hiddenCurrents, recurrentCurrents |-> recurrentCurrents,
        homeostasis |-> homeo]

EmptyTrainResult ==
    [t |-> <<>>, inputSpikes |-> <<>>, hiddenSpikes |-> <<>>, outputSpikes |-> <<>>,
     hiddenV |-> <<>>, outputV |-> <<>>, weightsIH |-> <<>>, weightsHO |-> <<>>,
     homeoFactors |-> <<>>, firingRates |-> <<>>]

SNN_record(r, it) ==
    [t |-> Append(r.t, it.t),
     inputSpikes |-> Append(r.inputSpikes, it.inputSpikes),
     hiddenSpikes |-> Append(r.hiddenSpikes, it.hiddenSpikes),
     outputSpikes |-> Append(r.outputSpikes, it.outputSpikes),
     hiddenV |-> Append(r.hiddenV, it.hiddenV),
     outputV |-> Append(r.outputV, it.outputV),
     weightsIH |-> Append(r.weightsIH, it.weightsIH),
     weightsHO |-> Append(r.weightsHO, it.weightsHO),
     homeoFactors |-> Append(r.homeoFactors, it.homeoFactors),
     firingRates |-> Append(r.firingRates, it.firingRates)]

\* Math.max(...f) over f[0] .. f[n-1]; -Infinity for no argument
RECURSIVE MaxOf(_, _)
MaxOf(f, n) == IF n <= 0 THEN NegInf ELSE Max(MaxOf(f, n - 1), f[n - 1])

\* f.indexOf(x), searched from index k: the first index holding x, -1 when none
RECURSIVE IndexOf(_, _, _, _)
IndexOf(f, n, x, k) ==
    IF k >= n THEN 0 - 1 ELSE IF f[k] = x THEN k ELSE IndexOf(f, n, x, k + 1)

\* f.lastIndexOf(x)
RECURSIVE LastIndexOf(_, _, _)
LastIndexOf(f, n, x) ==
    IF n <= 0 THEN 0 - 1 ELSE IF f[n - 1] = x THEN n - 1 ELSE LastIndexOf(f, n - 1, x)

\* counts[o]++ for every row of the raster in which spikes[o] holds
RECURSIVE SNN_counts(_, _)
SNN_counts(nOutput, outputSpikes) ==
    IF outputSpikes = <<>> THEN [o \in Idx(nOutput) |-> 0]
    ELSE LET c == SNN_counts(nOutput, SubSeq(outputSpikes, 1, Len(outputSpikes) - 1))
             spikes == outputSpikes[Len(outputSpikes)]
         IN [o \in Idx(nOutput) |-> IF spikes[o] THEN c[o] + 1 ELSE c[o]]

\* the same scoring with the last index of the maximum as winner
SNN_scoreLastWinner(nOutput, outputSpikes) ==
    LET counts == SNN_counts(nOutput, outputSpikes)
        maxCount == MaxOf(counts, nOutput)
        total == SumFn(counts, nOutput)
    IN [outputSpikeCounts |-> counts,
        winnerNeuron |-> LastIndexOf(counts, nOutput, maxCount),
        confidence |-> IF total > 0 THEN Quot(maxCount * ONE, total) ELSE 0]

\* test(), after run() has returned: counts, maxCount, winner, total, confidence
\* (fixed-point)
SNN_score(nOutput, outputSpikes) ==
    LET counts == SNN_counts(nOutput, outputSpikes)
        maxCount == MaxOf(counts, nOutput)
        winner == IndexOf(counts, nOutput, maxCount, 0)
        total == SumFn(counts, nOutput)
    IN [outputSpikeCounts |-> counts, winnerNeuron |-> winner,
        confidence |-> IF total > 0 THEN Quot(maxCount * ONE, total) ELSE 0]

SNN_testResult(net, result) == SNN_score(net.nOutput, result.outputSpikes)

NoTestResult == [outputSpikeCounts |-> <<>>, winnerNeuron |-> 0 - 1, confidence |-> 0]

\* parameter sets explored: the defaults with thresholds low enough for a single
\* input spike to propagate, and the same with initialW = 0.01 (= wMin)
SNN_small == [SNNDefaults(2, 2, 2) EXCEPT !.hiddenThreshold = 3000,
                                          !.outputThreshold = 6000]
SNN_lowW == [SNN_small EXCEPT !.initialW = 100]
SNN_noRecurrence == [SNN_small EXCEPT !.enableRecurrent = FALSE]
SNNParamSets == {SNN_small, SNN_lowW, SNN_noRecurrence}

\* SpikePattern.spikeTimes explored: two channels in order, both at once (early,
\* and late enough for the run to end before the recurrent delay has passed), and
\* one entry short of the two input neurons
SNNPatterns == {<<1, 3>>, <<1, 5>>, <<2, 2>>, <<4, 4>>, <<1>>}
SNNDurations == {0, 5}
MaxSnnRuns == 2

\* the call and the record of the run before this one, kept when that was a test
NoTestRun ==
    [op |-> "none", spikeTimes |-> <<>>, durationMs |-> 0, result |-> EmptyTrainResult]

SNN_lastTest(run) ==
    IF run.op = "test"
    THEN [op |-> "test", spikeTimes |-> run.spikeTimes, durationMs |-> run.durationMs,
          result |-> run.result]
    ELSE NoTestRun

SnnIdle ==
    [pc |-> "idle", op |-> "none", step |-> 0, steps |-> 0, spikeTimes |-> <<>>,
     durationMs |-> 0, training |-> FALSE, runs |-> 0,
     result |-> EmptyTrainResult, testResult |-> NoTestResult,
     wBefore |-> <<>>, homeoAt |-> <<>>, prev |-> NoTestRun]

SNN_weights(net) ==
    FlatW(net.synapsesIH, net.nInput, net.nHidden)
        \o FlatW(net.synapsesHO, net.nHidden, net.nOutput)

SnnVarsInit ==
    /\ rng \in NativeStates
    /\ \E p \in SNNParamSets :
          snn = RecurrentSNN(p, [kind |-> "native", state |-> rng])
    /\ snnRun = SnnIdle

\* train / test entered: run() executes its reset block
SnnBegin(op, spikeTimes, durationMs) ==
    /\ snnRun.pc = "idle"
    /\ snnRun.runs < MaxSnnRuns
    /\ snn' = SNN_resetState(snn)
    /\ snnRun' = [SnnIdle EXCEPT !.pc = "loop", !.op = op,
                     !.steps = SNN_steps(snn, durationMs),
                     !.spikeTimes = spikeTimes, !.durationMs = durationMs,
                     !.training = (op = "train"),
                     !.runs = snnRun.runs + 1,
                     !.wBefore = SNN_weights(snn),
                     !.prev = SNN_lastTest(snnRun)]
    /\ UNCHANGED <<evt, evtRun, trc, trcRun, rng, unit, exp, lay, tst>>

SnnTrain == \E p \in SNNPatterns, d \in SNNDurations : SnnBegin("train", p, d)
SnnTest == \E p \in SNNPatterns, d \in SNNDurations : SnnBegin("test", p, d)

SnnStep ==
    /\ snnRun.pc = "loop"
    /\ snnRun.step < snnRun.steps
    /\ \E it \in {SNN_iteration(snn, snnRun.spikeTimes, snnRun.training, snnRun.step)} :
          /\ snn' = it.net
          /\ snnRun' = [snnRun EXCEPT !.step = snnRun.step + 1,
                                      !.result = SNN_record(snnRun.result, it),
                                      !.homeoAt = IF it.homeostasis
                                                  THEN Append(snnRun.homeoAt, it.t)
                                                  ELSE snnRun.homeoAt]
    /\ UNCHANGED <<evt, evtRun, trc, trcRun, rng, unit, exp, lay, tst>>

\* run() returns; test() then derives its TestResult
SnnReturn ==
    /\ snnRun.pc = "loop"
    /\ snnRun.step >= snnRun.steps
    /\ snnRun' = [snnRun EXCEPT !.pc = "idle",
                     !.testResult = IF snnRun.op = "test"
                                    THEN SNN_testResult(snn, snnRun.result)
                                    ELSE NoTestResult]
    /\ UNCHANGED <<evt, evtRun, trc, trcRun, snn, rng, unit, exp, lay, tst>>

\* ------------------------------------------------- one unit driven on its own
\* A neuron is stepped every dt with a current of the caller's choice; a synapse
\* receives spike events, decay and homeostasis calls at the times the caller
\* passes.  unit.s is the object, unit.s0 the object as constructed; lastSpikeAt
\* and gap record the spikes step() has reported, burst the spikes of the bursting
\* neuron's burst in progress (or last completed), ret the number the last call
\* returned.
NeuronKinds == {"LIF", "ALIF", "Izh", "Burst", "TraceLIF"}
RefractoryKinds == {"LIF", "ALIF", "Burst", "TraceLIF"}
SynapseKinds == {"STDP", "TraceSTDP", "Homeo", "Inh", "Rec"}

MaxUnitOps == 4
MaxBurstOps == 8

\* calls made on one object: the bursting neuron is followed through whole bursts
Unit_maxOps(kind) == IF kind = "Burst" THEN MaxBurstOps ELSE MaxUnitOps

\* the objects explored: each class with its defaults, the bursting neuron also
\* with refractoryMs 2, burstSize 2, intraBurstInterval 1, the homeostatic synapse
\* with (targetRate, homeoStrength) = (5, 0.001), (5, 0.5), (0, 0.5)
UnitObjects ==
    {[kind |-> "LIF", s |-> LIFNeuron(LIFParams(LIF_tauMs, ONE, LIF_refractoryMs))],
     [kind |-> "ALIF", s |-> AdaptiveLIFNeuron(ALIFParams(ALIF_tauMs, ONE,
                                 ALIF_refractoryMs, ALIF_tauAdapt, ALIF_bAdapt))],
     [kind |-> "Izh", s |-> IzhikevichNeuron],
     [kind |-> "Burst", s |-> BurstingNeuron(BurstParams(Burst_refractoryMs,
                                 Burst_burstSize, Burst_intraBurstInterval))],
     [kind |-> "Burst", s |-> BurstingNeuron(BurstParams(2, 2, 1))],
     [kind |-> "TraceLIF", s |-> TraceLIFNeuron],
     [kind |-> "STDP", s |-> STDPSynapse(ONE \div 2, STDP_wMin, STDP_wMaxDefault * ONE)],
     [kind |-> "TraceSTDP", s |-> TraceSTDPSynapse(ONE \div 2, 0, ONE)],
     [kind |-> "TraceNet",
      s |-> [net |-> TraceNetwork, sp1 |-> FALSE, sp2 |-> FALSE, spO |-> FALSE]],
     [kind |-> "Inh", s |-> InhibitorySynapse(Inh_w, Inh_tauDecay)],
     [kind |-> "Rec", s |-> RecurrentSynapse(Rec_w, Rec_delayMs)]}
    \cup {[kind |-> "Homeo",
           s |-> HomeostaticSTDPSynapse(ONE \div 2, 2 * ONE, 100, 120, hp[1], hp[2])] :
            hp \in {<<5, 10>>, <<5, ONE \div 2>>, <<0, ONE \div 2>>}}

\* step sizes and input currents offered to each neuron class
UnitDts(kind) ==
    CASE kind = "TraceLIF" -> {ONE, 3 * ONE}
      [] kind = "TraceNet" -> {3 * ONE}
      [] OTHER -> {1, 2}
UnitCurrents(kind) ==
    CASE kind = "Izh" -> {0, 100 * ONE}
      [] kind \in {"TraceLIF", "TraceNet"} -> {0, 40 * ONE}
      [] OTHER -> {0, (12 * ONE) \div 10}

Unit_step(kind, s, current, dt, t) ==
    CASE kind = "LIF" -> LIF_step(s, current, dt, t)
      [] kind = "ALIF" -> ALIF_step(s, current, dt, t)
      [] kind = "Izh" -> Izh_step(s, current, dt, t)
      [] kind = "Burst" -> Burst_step(s, current, dt, t)
      [] kind = "TraceLIF" -> TL_step(s, current, dt, t)

Unit_reset(kind, s) ==
    CASE kind = "LIF" -> LIF_reset(s)
      [] kind = "ALIF" -> ALIF_reset(s)
      [] kind = "Izh" -> Izh_reset(s)
      [] kind = "Burst" -> Burst_reset(s)
      [] kind = "TraceLIF" -> TL_reset(s)
      [] kind = "STDP" -> STDP_reset(s)
      [] kind = "TraceSTDP" -> TS_reset(s)
      [] kind = "Homeo" -> Homeo_reset(s)
      [] kind = "Inh" -> Inh_reset(s)
      [] kind = "Rec" -> Rec_reset(s)

\* the configured refractory period, in the unit's time scale
Unit_refractory(kind, s) ==
    CASE kind = "LIF" -> s.params.refractoryMs
      [] kind = "TraceLIF" -> TL_t_ref * ONE
      [] OTHER -> s.p.refractoryMs

UnitVarsInit ==
    \E o \in UnitObjects : \E dt \in UnitDts(o.kind) :
        unit = [kind |-> o.kind, s |-> o.s, s0 |-> o.s, dt |-> dt, t |-> 0,
                op |-> "new", ops |-> 0, dirty |-> FALSE,
                lastSpikeAt |-> NegInf, gap |-> NegInf, burst |-> 0, ret |-> 0]

\* what every unit action does to the call history
Unit_after(op, s, t) ==
    [unit EXCEPT !.s = s, !.t = t, !.op = op, !.ops = unit.ops + 1, !.ret = 0]

UnitStep ==
    /\ unit.kind \in NeuronKinds
    /\ unit.ops < Unit_maxOps(unit.kind)
    /\ \E current \in UnitCurrents(unit.kind) :
          LET r == Unit_step(unit.kind, unit.s, current, unit.dt, unit.t)
              u == Unit_after("step", r.n, unit.t + unit.dt)
          IN unit' = IF r.spike
                     THEN [u EXCEPT !.lastSpikeAt = unit.t,
                                    !.gap = IF unit.lastSpikeAt = NegInf THEN NegInf
                                            ELSE unit.t - unit.lastSpikeAt,
                                    !.burst = IF unit.kind # "Burst" THEN 0
                                              ELSE IF unit.s.burstRemaining > 0
                                                   THEN unit.burst + 1 ELSE 1]
                     ELSE u
    /\ UNCHANGED <<evt, evtRun, trc, trcRun, snn, snnRun, rng, exp, lay, tst>>

\* a synaptic bump delivered to the trace-carrying neuron between two steps
UnitInject ==
    /\ unit.kind = "TraceLIF"
    /\ unit.ops < MaxUnitOps
    /\ unit' = Unit_after("inject",
                          TL_injectCurrent(unit.s, (TS_pspAmplitude * ONE) \div 2), unit.t)
    /\ UNCHANGED <<evt, evtRun, trc, trcRun, snn, snnRun, rng, exp, lay, tst>>

UnitPreSpike ==
    /\ unit.kind \in {"STDP", "Homeo", "Inh", "Rec"}
    /\ unit.ops < MaxUnitOps
    /\ unit' = Unit_after("pre",
                 CASE unit.kind = "STDP" -> STDP_onPreSpike(unit.s, unit.t)
                   [] unit.kind = "Homeo" -> Homeo_onPreSpike(unit.s, unit.t)
                   [] unit.kind = "Inh" -> Inh_onPreSpike(unit.s)
                   [] unit.kind = "Rec" -> Rec_onPreSpike(unit.s, unit.t),
                 unit.t)
    /\ UNCHANGED <<evt, evtRun, trc, trcRun, snn, snnRun, rng, exp, lay, tst>>

UnitPostSpike ==
    /\ unit.kind \in {"STDP", "Homeo"}
    /\ unit.ops < MaxUnitOps
    /\ unit' = Unit_after("post",
                 IF unit.kind = "STDP" THEN STDP_onPostSpike(unit.s, unit.t)
                 ELSE Homeo_onPostSpike(unit.s, unit.t),
                 unit.t)
    /\ UNCHANGED <<evt, evtRun, trc, trcRun, snn, snnRun, rng, exp, lay, tst>>

\* dt passes: decayTraces / decay / decayVariables where the class has one
UnitDecay ==
    /\ unit.kind \in {"STDP", "Homeo", "Inh", "Rec"}
    /\ unit.ops < MaxUnitOps
    /\ unit' = Unit_after("decay",
                 CASE unit.kind = "STDP" -> unit.s
                   [] unit.kind = "Homeo" -> Homeo_decayTraces(unit.s, unit.dt)
                   [] unit.kind = "Inh" -> Inh_decay(unit.s, unit.dt)
                   [] unit.kind = "Rec" -> Rec_decayVariables(unit.s, unit.dt),
                 unit.t + unit.dt)
    /\ UNCHANGED <<evt, evtRun, trc, trcRun, snn, snnRun, rng, exp, lay, tst>>

\* updateHomeostasis(tMs) now or one window later
UnitHomeostasis ==
    /\ unit.kind = "Homeo"
    /\ unit.ops < MaxUnitOps
    /\ \E tMs \in {unit.t, unit.t + Homeo_windowMs} :
          unit' = Unit_after("homeo", Homeo_updateHomeostasis(unit.s, tMs), tMs)
    /\ UNCHANGED <<evt, evtRun, trc, trcRun, snn, snnRun, rng, exp, lay, tst>>

\* silent intervals between two calls of the event-based synapse: it keeps no clock,
\* the next call just carries a later tMs
UnitGaps == {1000}

UnitWait ==
    /\ unit.kind = "STDP"
    /\ unit.ops < MaxUnitOps
    /\ \E gap \in UnitGaps : unit' = Unit_after("wait", unit.s, unit.t + gap)
    /\ UNCHANGED <<evt, evtRun, trc, trcRun, snn, snnRun, rng, exp, lay, tst>>

UnitGetCurrent ==
    /\ unit.kind = "Rec"
    /\ unit.ops < MaxUnitOps
    /\ unit' = [Unit_after("getCurrent", Rec_getCurrent(unit.s, unit.t).s, unit.t)
                  EXCEPT !.ret = Rec_getCurrent(unit.s, unit.t).current]
    /\ UNCHANGED <<evt, evtRun, trc, trcRun, snn, snnRun, rng, exp, lay, tst>>

\* step(preSpike, postSpike, learning) of the trace-based synapse, its two neurons
\* carrying full traces
UnitSynStep ==
    /\ unit.kind = "TraceSTDP"
    /\ unit.ops < MaxUnitOps
    /\ \E preSpike \in BOOLEAN, postSpike \in BOOLEAN, learning \in BOOLEAN :
          LET pre == [TraceLIFNeuron EXCEPT !.tracePos = ONE]
              post == [TraceLIFNeuron EXCEPT !.traceNeg = ONE]
          IN unit' = Unit_after("synStep",
                        TS_step(unit.s, pre, post, preSpike, postSpike, learning).s,
                        unit.t)
    /\ UNCHANGED <<evt, evtRun, trc, trcRun, snn, snnRun, rng, exp, lay, tst>>

\* the neurons and synapses of the trace-based network stepped in the order of
\* _simulate()'s loop body, the inputs driven hard enough to spike
UnitNetStep ==
    /\ unit.kind = "TraceNet"
    /\ unit.ops < MaxUnitOps
    /\ \E i1 \in UnitCurrents(unit.kind), i2 \in UnitCurrents(unit.kind) :
          \E it \in {Trc_body(unit.s.net, i1, i2, unit.dt, unit.t, TRUE)} :
             unit' = Unit_after("netStep",
                                [net |-> it.net, sp1 |-> it.sp1, sp2 |-> it.sp2,
                                 spO |-> it.spO],
                                unit.t + unit.dt)
    /\ UNCHANGED <<evt, evtRun, trc, trcRun, snn, snnRun, rng, exp, lay, tst>>

\* the object as its constructor left it, carrying the weight s has now
Unit_asConstructed(kind, s0, s) ==
    CASE kind \in NeuronKinds -> s0
      [] kind = "TraceSTDP" -> [s0 EXCEPT !.weight = s.weight,
                                          !.weightHistory = <<s.weight>>]
      [] OTHER -> [s0 EXCEPT !.w = s.w]

UnitReset ==
    /\ unit.kind \in NeuronKinds \cup SynapseKinds
    /\ unit.ops < Unit_maxOps(unit.kind)
    /\ unit' = [Unit_after("reset", Unit_reset(unit.kind, unit.s), unit.t) EXCEPT
                  !.dirty = (unit.s # Unit_asConstructed(unit.kind, unit.s0, unit.s)),
                  !.lastSpikeAt = NegInf, !.gap = NegInf, !.burst = 0]
    /\ UNCHANGED <<evt, evtRun, trc, trcRun, snn, snnRun, rng, exp, lay, tst>>

\* ------------------------------------------------ runExperiment (App, v2 page)
\* generatePatterns(nInput): the five predefined patterns, spikeTimes 1-indexed
Gen_baseTime == 15
Gen_spacing == 5

generatePatterns(nInput) ==
    LET mk(name, f(_)) == [name |-> name, spikeTimes |-> [k \in 1 .. nInput |-> f(k - 1)]]
        alpha(i) == Gen_baseTime + i * Gen_spacing
        beta(i) == Gen_baseTime + (nInput - 1 - i) * Gen_spacing
        gamma(i) == Gen_baseTime + (IF i % 2 = 0 THEN 0 ELSE 15)
        delta(i) == Gen_baseTime + (i \div 2) * Gen_spacing * 2
        epsilon(i) == Gen_baseTime + ((i * 3) % nInput) * Gen_spacing
    IN <<mk("Alpha", alpha), mk("Beta", beta), mk("Gamma", gamma), mk("Delta", delta),
         mk("Epsilon", epsilon)>>

\* the generator Math.random is bound to while the network is constructed
Exp_nativeSource(seed, native) == [kind |-> "native", state |-> native]

Exp_randomSource(seed, native) == [kind |-> "seeded", state |-> seed]

\* the RecurrentSNNParams runExperiment passes
Exp_netParams(params) ==
    [SNNDefaults(params.nInput, params.nHidden, params.nOutput) EXCEPT
        !.inhibitionWHidden = params.inhibitionW,
        !.inhibitionWOutput = params.inhibitionW,
        !.recurrentW = params.recurrentW,
        !.enableRecurrent = params.enableRecurrent,
        !.hiddenThreshold = (7 * ONE) \div 10, !.outputThreshold = (6 * ONE) \div 10,
        !.initialW = (35 * ONE) \div 100, !.wMax = 2 * ONE,
        !.aPlus = 120, !.aMinus = 130,
        !.targetRateIH = 6, !.targetRateHO = 6, !.homeoStrength = 8]

\* the calls runExperiment makes on the network, in order
RECURSIVE Exp_trainCalls(_, _, _)
Exp_trainCalls(patterns, epoch, epochs) ==
    IF epoch >= epochs THEN <<>>
    ELSE [k \in 1 .. Len(patterns) |->
            [kind |-> "train", pattern |-> patterns[k], epoch |-> epoch,
             epochEnd |-> k = Len(patterns)]]
         \o Exp_trainCalls(patterns, epoch + 1, epochs)

RECURSIVE Exp_testCalls(_)
Exp_testCalls(patterns) ==
    IF patterns = <<>> THEN <<>>
    ELSE <<[kind |-> "test", pattern |-> Head(patterns), epoch |-> 0, epochEnd |-> FALSE],
           [kind |-> "run", pattern |-> Head(patterns), epoch |-> 0, epochEnd |-> FALSE]>>
         \o Exp_testCalls(Tail(patterns))

Exp_plan(params) ==
    Exp_trainCalls(generatePatterns(params.nInput), 0, params.epochs)
        \o Exp_testCalls(generatePatterns(params.nInput))

RECURSIVE SumSeq(_)
SumSeq(q) == IF q = <<>> THEN 0 ELSE Head(q) + SumSeq(Tail(q))

Exp_avg(q) == IF Len(q) > 0 THEN Quot(SumSeq(q), Len(q)) ELSE 0
Exp_last(q) == IF Len(q) > 0 THEN q[Len(q)] ELSE <<>>

\* spikes counted over a boolean[][] series, all neurons / one neuron
Exp_count(series, n) ==
    SumSeq([k \in 1 .. Len(series) |-> Cardinality({i \in Idx(n) : series[k][i]})])
Exp_countOf(series, i) == Cardinality({k \in 1 .. Len(series) : series[k][i]})

ExpEmptyOut ==
    [initialWeights |-> <<>>, trainHistory |-> <<>>, testResults |-> <<>>,
     wtaDynamics |-> <<>>, homeoOverEpochs |-> <<>>, firingRateOverEpochs |-> <<>>,
     lastTrainDetail |-> [n \in {"Alpha", "Beta", "Gamma", "Delta", "Epsilon"} |->
                            EmptyTrainResult],
     finalWeights |-> <<>>, finalHomeo |-> <<>>]

\* parameter sets explored
ExpSeeds == {1, 42}
ExpEpochs == {1}
ExpDurations == {26}
ExpParamSets ==
    {[nInput |-> 3, nHidden |-> 2, nOutput |-> 2, epochs |-> e, durationMs |-> d,
      inhibitionW |-> (7 * ONE) \div 10, recurrentW |-> (12 * ONE) \div 100,
      enableRecurrent |-> TRUE, seed |-> sd] :
        e \in ExpEpochs, d \in ExpDurations, sd \in ExpSeeds}

ExpVarsInit ==
    /\ rng \in NativeStates
    /\ \E params \in ExpParamSets :
          exp = [pc |-> "start", exec |-> 1, params |-> params, native |-> <<>>,
                 net |-> <<>>, calls |-> <<>>, step |-> 0, steps |-> 0,
                 result |-> EmptyTrainResult, out |-> ExpEmptyOut, first |-> ExpEmptyOut]

\* runExperiment up to `Math.random = origRandom`
ExpConstruct ==
    /\ exp.pc = "start"
    /\ LET net == RecurrentSNN(Exp_netParams(exp.params),
                               Exp_randomSource(exp.params.seed, rng))
       IN exp' = [exp EXCEPT !.pc = "next", !.net = net,
                     !.native = Append(exp.native, rng),
                     !.calls = Exp_plan(exp.params),
                     !.out = [ExpEmptyOut EXCEPT !.initialWeights = SNN_weights(net)]]
    /\ UNCHANGED <<evt, evtRun, trc, trcRun, snn, snnRun, rng, unit, lay, tst>>

\* net.train / net.test / net.run entered: run() executes its reset block
ExpCall ==
    /\ exp.pc = "next" /\ exp.calls # <<>>
    /\ exp' = [exp EXCEPT !.pc = "loop", !.net = SNN_resetState(exp.net),
                  !.step = 0, !.steps = SNN_steps(exp.net, exp.params.durationMs),
                  !.result = EmptyTrainResult]
    /\ UNCHANGED <<evt, evtRun, trc, trcRun, snn, snnRun, rng, unit, lay, tst>>

ExpStep ==
    /\ exp.pc = "loop" /\ exp.step < exp.steps
    /\ LET c == Head(exp.calls)
           it == SNN_iteration(exp.net, c.pattern.spikeTimes, c.kind = "train", exp.step)
       IN exp' = [exp EXCEPT !.net = it.net, !.step = exp.step + 1,
                     !.result = SNN_record(exp.result, it)]
    /\ UNCHANGED <<evt, evtRun, trc, trcRun, snn, snnRun, rng, unit, lay, tst>>

\* the call returns and runExperiment files what it keeps of the result
ExpReturn ==
    /\ exp.pc = "loop" /\ exp.step >= exp.steps
    /\ LET c == Head(exp.calls)
           r == exp.result
           o == exp.out
           p == exp.params
           row == [epoch |-> c.epoch, patternName |-> c.pattern.name,
                   avgWeightIH |-> Exp_avg(Exp_last(r.weightsIH)),
                   avgWeightHO |-> Exp_avg(Exp_last(r.weightsHO)),
                   avgHomeoFactor |-> Exp_avg(Exp_last(r.homeoFactors)),
                   hiddenSpikes |-> Exp_count(r.hiddenSpikes, p.nHidden),
                   outputSpikes |-> Exp_count(r.outputSpikes, p.nOutput)]
           hfRow == [k \in 1 .. (Min(3, p.nInput) * Min(3, p.nHidden)) |->
                       exp.net.synapsesIH[(k - 1) \div Min(3, p.nHidden)]
                                         [(k - 1) % Min(3, p.nHidden)].homeoFactor]
           tested == SNN_testResult(exp.net, r)
           out1 ==
             CASE c.kind = "train" ->
                    [o EXCEPT !.trainHistory = Append(@, row),
                              !.lastTrainDetail[c.pattern.name] = r,
                              !.homeoOverEpochs =
                                  IF c.epochEnd THEN Append(@, hfRow) ELSE @,
                              !.firingRateOverEpochs =
                                  IF c.epochEnd THEN Append(@, Exp_last(r.firingRates))
                                  ELSE @]
               [] c.kind = "test" ->
                    [o EXCEPT !.testResults =
                        Append(@, [patternName |-> c.pattern.name,
                                   outputSpikes |-> r.outputSpikes,
                                   winnerNeuron |-> tested.winnerNeuron,
                                   outputSpikeCounts |-> tested.outputSpikeCounts,
                                   confidence |-> tested.confidence])]
               [] c.kind = "run" ->
                    [o EXCEPT !.wtaDynamics =
                        Append(@, [patternName |-> c.pattern.name,
                                   hiddenSpikeCounts |->
                                       [n \in Idx(p.nHidden) |->
                                           Exp_countOf(r.hiddenSpikes, n)],
                                   outputSpikeCounts |->
                                       Exp_last(o.testResults).outputSpikeCounts])]
       IN exp' = [exp EXCEPT !.pc = "next", !.calls = Tail(exp.calls), !.out = out1]
    /\ UNCHANGED <<evt, evtRun, trc, trcRun, snn, snnRun, rng, unit, lay, tst>>

\* getWeights / getHomeoFactors and the return of the ExperimentResult
ExpFinish ==
    /\ exp.pc = "next" /\ exp.calls = <<>>
    /\ exp' = [exp EXCEPT !.pc = "returned",
                  !.out.finalWeights = SNN_weights(exp.net),
                  !.out.finalHomeo = FlatHomeo(exp.net.synapsesIH, exp.params.nInput,
                                               exp.params.nHidden)]
    /\ UNCHANGED <<evt, evtRun, trc, trcRun, snn, snnRun, rng, unit, lay, tst>>

\* runExperiment is called again with the same params; whatever else ran in
\* between has left Math.random's own state anywhere
ExpAgain ==
    /\ exp.pc = "returned" /\ exp.exec = 1
    /\ rng' \in NativeStates
    /\ exp' = [exp EXCEPT !.pc = "start", !.exec = 2, !.first = exp.out,
                  !.net = <<>>, !.result = EmptyTrainResult, !.step = 0, !.steps = 0]
    /\ UNCHANGED <<evt, evtRun, trc, trcRun, snn, snnRun, unit, lay, tst>>

\* ------------------------------------------- runs of 50 ms and coarser steps
\* One network object is constructed, event-based or 3-layer, and run; the 3-layer
\* network also with dtMs = 2 and for 50 ms.
SNN_coarse == [SNN_small EXCEPT !.dtMs = 2]
\* lateral inhibition switched off in both layers
SNN_free == [SNN_small EXCEPT !.inhibitionWHidden = 0, !.inhibitionWOutput = 0]
\* a step longer than twice the membrane time constant of the layers, no recurrence
SNN_wide == [SNN_small EXCEPT !.dtMs = 50, !.enableRecurrent = FALSE]
SNNLongParamSets == {SNN_small, SNN_coarse, SNN_free, SNN_wide}
SNNLongPatterns == {<<1, 5>>, <<1, 12>>, <<2, 2>>}
SNNLongDurations == {5, 100}
MaxLongRuns == 1

SnnLongVarsInit ==
    /\ rng \in NativeStates
    /\ \E p \in SNNLongParamSets :
          snn = RecurrentSNN(p, [kind |-> "native", state |-> rng])
    /\ snnRun = SnnIdle

SnnLongBegin(op, spikeTimes, durationMs) ==
    /\ snnRun.pc = "idle"
    /\ snnRun.runs < MaxLongRuns
    /\ snn' = SNN_resetState(snn)
    /\ snnRun' = [SnnIdle EXCEPT !.pc = "loop", !.op = op,
                     !.steps = SNN_steps(snn, durationMs),
                     !.spikeTimes = spikeTimes, !.durationMs = durationMs,
                     !.training = (op = "train"),
                     !.runs = snnRun.runs + 1,
                     !.wBefore = SNN_weights(snn),
                     !.prev = SNN_lastTest(snnRun)]
    /\ UNCHANGED <<evt, evtRun, trc, trcRun, rng, unit, exp, lay, tst>>

SnnLongTrain ==
    \E p \in SNNLongPatterns, d \in SNNLongDurations : SnnLongBegin("train", p, d)
SnnLongTest ==
    \E p \in SNNLongPatterns, d \in SNNLongDurations : SnnLongBegin("test", p, d)

\* ------------------------------------------------ SpikingLayer driven on its own
\* Two layers that differ only in the inhibition weight (lay.A the smaller, lay.B
\* the larger) receive the same fixed input currents at every step.  lay.last is
\* the LayerState A's last step returned; lay.rates is what A's getFiringRates
\* returned for a window of lay.window steps.
LaySize == 3
MaxLaySteps == 8
LayCurrents == {0, (6 * ONE) \div 10, (12 * ONE) \div 10}
LayWeights == {0, (4 * ONE) \div 10, Inh_w}
LayDts == {1, 2}
LayWindows == {1, 2, 5}

LayNeuronParams ==
    ALIFParams(ALIF_tauMs, ONE, ALIF_refractoryMs, ALIF_tauAdapt, ALIF_bAdapt)

NoLayerState == [spikes |-> <<>>, voltages |-> <<>>, inhibitions |-> <<>>,
                 totalSpikes |-> 0]

LayVarsInit ==
    \E input \in [Idx(LaySize) -> LayCurrents], wA \in LayWeights, wB \in LayWeights,
       dt \in LayDts :
        /\ wA < wB
        /\ lay = [pc |-> "on", input |-> input, dt |-> dt, t |-> 0, k |-> 0,
                  A |-> SpikingLayer(LaySize, LayNeuronParams, wA, Inh_tauDecay, TRUE),
                  B |-> SpikingLayer(LaySize, LayNeuronParams, wB, Inh_tauDecay, TRUE),
                  last |-> NoLayerState, rates |-> <<>>, window |-> 0,
                  resets |-> 0]

\* layer.step(input, dt, t) on both layers
LayStep ==
    /\ lay.pc = "on"
    /\ lay.k < MaxLaySteps
    /\ LET a == Layer_step(lay.A, lay.input, lay.dt, lay.t)
           b == Layer_step(lay.B, lay.input, lay.dt, lay.t)
       IN lay' = [lay EXCEPT !.A = a.L, !.B = b.L, !.t = lay.t + lay.dt,
                             !.k = lay.k + 1,
                             !.last = [spikes |-> a.spikes, voltages |-> a.voltages,
                                       inhibitions |-> a.inhibitions,
                                       totalSpikes |-> a.totalSpikes],
                             !.rates = <<>>, !.window = 0]
    /\ UNCHANGED <<evt, evtRun, trc, trcRun, snn, snnRun, rng, unit, exp, tst>>

\* layer.reset() on both layers, the caller starting over at time 0
LayReset ==
    /\ lay.pc = "on"
    /\ lay.k > 0
    /\ lay.resets = 0
    /\ lay' = [lay EXCEPT !.A = Layer_reset(lay.A), !.B = Layer_reset(lay.B),
                          !.t = 0, !.k = 0, !.resets = lay.resets + 1,
                          !.last = NoLayerState, !.rates = <<>>, !.window = 0]
    /\ UNCHANGED <<evt, evtRun, trc, trcRun, snn, snnRun, rng, unit, exp, tst>>

\* layer.getFiringRates(windowSteps, dt) on layer A
LayRates ==
    /\ lay.pc = "on"
    /\ lay.window = 0
    /\ \E windowSteps \in LayWindows :
          lay' = [lay EXCEPT !.rates = Layer_getFiringRates(lay.A, windowSteps, lay.dt),
                             !.window = windowSteps]
    /\ UNCHANGED <<evt, evtRun, trc, trcRun, snn, snnRun, rng, unit, exp, tst>>

\* --------------------------------------- RecurrentSNN.test's scoring on its own
\* The raster run() returned is any sequence of rows of nOutput booleans.
TstSizes == {1, 2, 3}
MaxRasterLen == 3

RECURSIVE Rasters(_, _)
Rasters(nOutput, len) ==
    IF len = 0 THEN {<<>>}
    ELSE {Append(r, row) : r \in Rasters(nOutput, len - 1),
                           row \in [Idx(nOutput) -> BOOLEAN]}

TstVarsInit ==
    \E n \in TstSizes, len \in 0 .. MaxRasterLen : \E r \in Rasters(n, len) :
        tst = [pc |-> "run", nOutput |-> n, outputSpikes |-> r, result |-> NoTestResult]

TstScore ==
    /\ tst.pc = "run"
    /\ tst' = [tst EXCEPT !.pc = "returned",
                          !.result = SNN_score(tst.nOutput, tst.outputSpikes)]
    /\ UNCHANGED <<evt, evtRun, trc, trcRun, snn, snnRun, rng, unit, exp, lay>>

\* ------------------------------------------------------------ specifications
EvtParked == evt = SimpleSTDPNetwork(ONE, ONE, ONE) /\ evtRun = EvtIdle
TrcParked == trc = TraceNetwork /\ trcRun = TrcIdle
SnnParked ==
    /\ rng = 1
    /\ snn = RecurrentSNN(SNNDefaults(1, 1, 1), [kind |-> "native", state |-> 1])
    /\ snnRun = SnnIdle

UnitParked ==
    unit = [kind |-> "none", s |-> 0, s0 |-> 0, dt |-> 1, t |-> 0, op |-> "new",
            ops |-> 0, dirty |-> FALSE, lastSpikeAt |-> NegInf, gap |-> NegInf,
            burst |-> 0, ret |-> 0]
ExpParked == exp = [pc |-> "off"]
LayParked == lay = [pc |-> "off"]
TstParked == tst = [pc |-> "off"]

NextEvt == EvtTrain \/ EvtTest \/ EvtStep \/ EvtReturn
InitEvt ==
    /\ EvtVarsInit /\ TrcParked /\ SnnParked /\ UnitParked /\ ExpParked
    /\ LayParked /\ TstParked
SpecEvt == InitEvt /\ [][NextEvt]_vars

NextTrc == TrcTrain \/ TrcTest \/ TrcRunFullDemo \/ TrcSimBegin \/ TrcSimStep
           \/ TrcSimEnd \/ TrcReturn
InitTrc ==
    /\ TrcVarsInit /\ EvtParked /\ SnnParked /\ UnitParked /\ ExpParked
    /\ LayParked /\ TstParked
SpecTrc == InitTrc /\ [][NextTrc]_vars

NextSnn == SnnTrain \/ SnnTest \/ SnnStep \/ SnnReturn
InitSnn ==
    /\ SnnVarsInit /\ EvtParked /\ TrcParked /\ UnitParked /\ ExpParked
    /\ LayParked /\ TstParked
SpecSnn == InitSnn /\ [][NextSnn]_vars

NextUnit == UnitStep \/ UnitInject \/ UnitPreSpike \/ UnitPostSpike \/ UnitDecay
            \/ UnitHomeostasis \/ UnitGetCurrent \/ UnitSynStep \/ UnitReset
            \/ UnitWait \/ UnitNetStep
InitUnit ==
    /\ UnitVarsInit /\ EvtParked /\ TrcParked /\ SnnParked /\ ExpParked
    /\ LayParked /\ TstParked
SpecUnit == InitUnit /\ [][NextUnit]_vars

NextExp == ExpConstruct \/ ExpCall \/ ExpStep \/ ExpReturn \/ ExpFinish \/ ExpAgain
InitExp ==
    /\ ExpVarsInit /\ EvtParked /\ TrcParked /\ UnitParked /\ LayParked /\ TstParked
    /\ snn = RecurrentSNN(SNNDefaults(1, 1, 1), [kind |-> "native", state |-> 1])
    /\ snnRun = SnnIdle
SpecExp == InitExp /\ [][NextExp]_vars

\* which of the two network classes was constructed
EvtBuilt == evtRun.w0 # <<0, 0>>
SnnBuilt == snn.nInput > 1

NextRuns ==
    \/ (EvtBuilt /\ EvtTrain) \/ (EvtBuilt /\ EvtTest)
    \/ (EvtBuilt /\ EvtStep) \/ (EvtBuilt /\ EvtReturn)
    \/ (SnnBuilt /\ SnnLongTrain) \/ (SnnBuilt /\ SnnLongTest)
    \/ (SnnBuilt /\ SnnStep) \/ (SnnBuilt /\ SnnReturn)
InitRuns ==
    /\ (EvtVarsInit /\ SnnParked) \/ (SnnLongVarsInit /\ EvtParked)
    /\ TrcParked /\ UnitParked /\ ExpParked /\ LayParked /\ TstParked
SpecRuns == InitRuns /\ [][NextRuns]_vars

NextLay == LayStep \/ LayRates \/ LayReset
InitLay ==
    /\ LayVarsInit /\ EvtParked /\ TrcParked /\ SnnParked /\ UnitParked /\ ExpParked
    /\ TstParked
SpecLay == InitLay /\ [][NextLay]_vars

NextTst == TstScore
InitTst ==
    /\ TstVarsInit /\ EvtParked /\ TrcParked /\ SnnParked /\ UnitParked /\ ExpParked
    /\ LayParked
SpecTst == InitTst /\ [][NextTst]_vars

\* ------------------------------------------------------------------ claims
\* every plastic synapse of the 3-layer network, IH first
SNN_plastic(net) ==
    {net.synapsesIH[i][h] : i \in Idx(net.nInput), h \in Idx(net.nHidden)}
      \cup {net.synapsesHO[h][o] : h \in Idx(net.nHidden), o \in Idx(net.nOutput)}

\* the network with the plastic weights (current and constructed) blanked: what is
\* left is the neuron state, the synapses' transient state and the parameters
SNN_transient(net) ==
    [net EXCEPT
       !.synapsesIH = [i \in Idx(net.nInput) |-> [h \in Idx(net.nHidden) |->
           [net.synapsesIH[i][h] EXCEPT !.w = 0, !.p.w = 0]]],
       !.synapsesHO = [h \in Idx(net.nHidden) |-> [o \in Idx(net.nOutput) |->
           [net.synapsesHO[h][o] EXCEPT !.w = 0, !.p.w = 0]]]]

\* C1 (as stated): during and after a test run of the 3-layer network every synapse
\* weight equals its value before the run.
C1_TestLeavesWeights ==
    (snnRun.op = "test") => SNN_weights(snn) = snnRun.wBefore

\* C2 (as stated): in every reachable state of the 3-layer network, from
\* construction on, every plastic weight lies within [wMin, wMax] of its synapse.
C2_WeightsWithinBounds ==
    \A s \in SNN_plastic(snn) : s.p.wMin <= s.w /\ s.w <= s.p.wMax

\* C5 (as stated): after runFullDemo(80, 50) of the trace-based network (80 training
\* epochs of 50 ms on A, then a test on A and a test on B) weight1 > weight2, the
\* test on A recorded an output spike and the test on B recorded none.
C5_DemoLearnsOrder ==
    (trcRun.pc = "idle" /\ trcRun.op = "demo")
        => /\ trc.synapse1.weight > trc.synapse2.weight
           /\ trcRun.spiked = <<TRUE, FALSE>>

\* C6 (as stated, its safety half): in the event-based network built with equal
\* weights and so far only trained on pattern A, no finished epoch leaves w2 > w1.
C6_NeverFavoursLater ==
    (evtRun.pc = "idle" /\ evtRun.runs > 0 /\ evtRun.onlyTrainA
       /\ evtRun.w0[1] = evtRun.w0[2])
        => evt.syn1.w >= evt.syn2.w

C10_DegenerateRejected ==
    (snnRun.runs > 0
       /\ (Len(snnRun.spikeTimes) < snn.nInput \/ snnRun.durationMs < snn.dtMs))
        => snnRun.step = 0 /\ snnRun.result = EmptyTrainResult

\* C3: in every reachable state of a homeostatic STDP synapse driven by any
\* sequence of onPreSpike, onPostSpike, decayTraces, updateHomeostasis and reset
\* calls, the homeostatic factor lies within [0.1, 3.0].
C3_HomeoFactorBounded ==
    unit.kind = "Homeo"
        => Homeo_factorMin <= unit.s.homeoFactor /\ unit.s.homeoFactor <= Homeo_factorMax

\* updateHomeostasis has just held the factor at a bound it would have crossed
C3_Witness ==
    /\ unit.kind = "Homeo" /\ unit.op = "homeo"
    /\ unit.s.homeoFactor \in {Homeo_factorMin, Homeo_factorMax}
    /\ unit.s.p.homeoStrength = ONE \div 2

\* C4 (as stated): for the LIF, adaptive LIF, bursting and trace-carrying LIF
\* neurons, two successive spikes reported by step() are at least the configured
\* refractory period apart.
C4_RefractoryGap ==
    (unit.kind \in RefractoryKinds /\ unit.gap # NegInf)
        => unit.gap >= Unit_refractory(unit.kind, unit.s)

\* C9: reset() after any sequence of calls leaves the object as its constructor
\* left it except for the weight, which keeps its current value, and a second
\* reset() changes nothing.
C9_ResetRestores ==
    [][(unit'.op = "reset" /\ unit'.ops = unit.ops + 1)
          => /\ unit'.s = Unit_asConstructed(unit.kind, unit.s0, unit.s)
             /\ Unit_reset(unit.kind, unit'.s) = unit'.s
      ]_vars

\* reset() has just been called on an object whose transient state had moved, here
\* a homeostatic synapse whose weight had moved too
C9_Witness ==
    /\ unit.op = "reset" /\ unit.dirty
    /\ unit.kind = "Homeo" /\ unit.s.w # unit.s0.w

\* C8: two executions of runExperiment with the same seed and parameters, whatever
\* Math.random's own state is at either, give the same initial weights, the same
\* per-step series, train history and test results, and the same final weights.
C8_SameSeedSameRun ==
    (exp.pc = "returned" /\ exp.exec = 2) => exp.out = exp.first

\* the second execution has returned, Math.random's own state differed between
\* the two, and training moved the weights
C8_Witness ==
    /\ exp.pc = "returned" /\ exp.exec = 2
    /\ exp.native[1] # exp.native[2]
    /\ exp.out.finalWeights # exp.out.initialWeights
    /\ \E k \in 1 .. Len(exp.out.testResults) : exp.out.testResults[k].confidence > 0

\* C11: test() reports, for the raster run() returned, the number of rows in which
\* each output neuron spiked, as winner the lowest index holding the largest count
\* (index 0 when nothing spiked), and as confidence the winner's count over the sum
\* of all counts, 0 when that sum is 0.
C11_TestScore ==
    (tst.pc = "returned") =>
        LET O == Idx(tst.nOutput)
            rows == 1 .. Len(tst.outputSpikes)
            n(o) == Cardinality({k \in rows : tst.outputSpikes[k][o]})
            sum == Cardinality({c \in rows \X O : tst.outputSpikes[c[1]][c[2]]})
            w == tst.result.winnerNeuron
        IN /\ \A o \in O : tst.result.outputSpikeCounts[o] = n(o)
           /\ w \in O
           /\ \A o \in O : n(o) <= n(w)
           /\ \A o \in O : o < w => n(o) < n(w)
           /\ (sum = 0) => (w = 0 /\ tst.result.confidence = 0)
           /\ (sum > 0) => tst.result.confidence = (n(w) * ONE) \div sum

\* a raster scored with two neurons tied on the largest count, the lower of them
\* not neuron 0
C11_Witness ==
    /\ tst.pc = "returned"
    /\ tst.nOutput = 3
    /\ tst.result.outputSpikeCounts = [o \in Idx(3) |-> IF o = 0 THEN 1 ELSE 2]
    /\ tst.result.winnerNeuron = 1
    /\ tst.result.confidence = (2 * ONE) \div 5

\* the inhibitory current a synapse of weight w holds for the step that follows the
\* recorded rows 1 .. m, as a function of its presynaptic neuron i's spikes in those
\* rows only: 0 before any row, then charged by w at each spike and decayed once per
\* step
RECURSIVE Lay_chargeFrom(_, _, _, _, _, _)
Lay_chargeFrom(history, i, m, w, tau, dt) ==
    IF m = 0 THEN 0
    ELSE Mul(Lay_chargeFrom(history, i, m - 1, w, tau, dt)
               + (IF history[m][i] THEN w ELSE 0), ExpNeg(dt, tau))

\* C12: the inhibition a layer step applies to neuron j is a function of the spikes
\* the other neurons emitted in earlier steps only; the step's spike outcome of
\* every neuron follows from its own state, its input and that inhibition, so a
\* spike of this step changes nothing within the step and charges the inhibition
\* of the next.
C12_InhibitionFromEarlierSpikes ==
    [][(lay'.k = lay.k + 1) =>
         \A j \in Idx(lay.A.size) :
            LET inhib == 0 - SumFn([i \in Idx(lay.A.size) |->
                            IF i = j THEN 0
                            ELSE Lay_chargeFrom(lay.A.spikeHistory, i, lay.k,
                                                lay.A.inhibitorySynapses[i][j].w,
                                                lay.A.inhibitorySynapses[i][j].tauDecay,
                                                lay.dt)],
                            lay.A.size)
            IN /\ lay'.last.inhibitions[j] = inhib
               /\ lay'.last.spikes[j] =
                     ALIF_step(lay.A.neurons[j], lay.input[j] + inhib, lay.dt, lay.t).spike
      ]_vars

\* neuron 0 spiked alone in the first step under no inhibition, and the second step
\* applies inhibition to neuron 1 and none to neuron 0
C12_Witness ==
    /\ lay.pc = "on" /\ lay.k = 2
    /\ lay.A.spikeHistory[1] = [i \in Idx(LaySize) |-> i = 0]
    /\ lay.last.inhibitions[1] < 0
    /\ lay.last.inhibitions[0] = 0
    /\ lay.input[1] > 0

\* the number of neuron i's spikes among the last m recorded rows of layer A
Lay_spikesInLast(m, i) ==
    LET n == Len(lay.A.spikeHistory)
    IN Cardinality({t \in (n - m + 1) .. n : lay.A.spikeHistory[t][i]})

\* C13 (as stated): getFiringRates(N, dt) returns for each neuron its spikes among
\* the last N recorded steps divided by N * dt, times 1000, histories shorter than N
\* steps included, and zeros when nothing is recorded.
C13_RatesOverNominalWindow ==
    (lay.pc = "on" /\ lay.window > 0) =>
        LET m == Min(lay.window, Len(lay.A.spikeHistory))
        IN \A i \in Idx(lay.A.size) :
              lay.rates[i] = IF m = 0 THEN 0
                             ELSE (Lay_spikesInLast(m, i) * 1000 * ONE)
                                      \div (lay.window * lay.dt)

\* C13 (amended): getFiringRates(N, dt) returns for each neuron its spikes among the
\* last m = min(N, recorded steps) rows divided by m * dt, times 1000, and zeros
\* when nothing is recorded.
C13_RatesOverRecordedWindow ==
    (lay.pc = "on" /\ lay.window > 0) =>
        LET m == Min(lay.window, Len(lay.A.spikeHistory))
        IN \A i \in Idx(lay.A.size) :
              lay.rates[i] = IF m = 0 THEN 0
                             ELSE (Lay_spikesInLast(m, i) * 1000 * ONE) \div (m * lay.dt)

\* a query over 5 steps with 2 steps recorded, neuron 0 having spiked in one of them
C13_Witness ==
    /\ lay.pc = "on" /\ lay.window = 5 /\ lay.k = 2
    /\ Lay_spikesInLast(2, 0) = 1
    /\ lay.rates[0] = (1000 * ONE) \div (2 * lay.dt)

\* the k-th smallest (k from 0) of the spike counts c[0] .. c[n-1]
Lay_kth(c, n, k) ==
    CHOOSE v \in {c[i] : i \in Idx(n)} :
        /\ Cardinality({i \in Idx(n) : c[i] < v}) <= k
        /\ Cardinality({i \in Idx(n) : c[i] <= v}) > k

\* the number of neurons of layer L whose spike count exceeds the median count (the
\* mean of the two middle counts when the size is even)
Lay_aboveMedian(L) ==
    LET c == L.totalSpikesPerNeuron
        n == L.size
        twiceMedian == Lay_kth(c, n, (n - 1) \div 2) + Lay_kth(c, n, n \div 2)
    IN Cardinality({i \in Idx(n) : 2 * c[i] > twiceMedian})

\* C14 (as stated): of two layers equal in everything but the inhibition weight and
\* driven by the same fixed input currents, the one with the larger weight has
\* strictly fewer neurons above the median spike count.
C14_MoreInhibitionFewerAboveMedian ==
    (lay.pc = "on" /\ lay.k >= 1) => Lay_aboveMedian(lay.B) < Lay_aboveMedian(lay.A)

\* ceil(durationMs / dtMs) + 1: one more than the least n with n * dtMs >= durationMs
Rec_length(durationMs, dtMs) ==
    1 + CHOOSE n \in (0 - 2) .. 100 : n * dtMs >= durationMs /\ (n - 1) * dtMs < durationMs

\* C15: the record a run of the event-based network or of the 3-layer network
\* returns holds in every series one entry per simulated step, all of the length
\* ceil(duration / dt) + 1, and its i-th time is i * dt.
C15_OneEntryPerStep ==
    /\ (EvtBuilt /\ evtRun.pc = "idle" /\ evtRun.runs > 0) =>
          LET r == evtRun.result
              n == Rec_length(evtRun.durationMs, evt.dtMs)
          IN /\ Len(r.t) = n /\ Len(r.pre1) = n /\ Len(r.pre2) = n /\ Len(r.post) = n
             /\ Len(r.vPost) = n /\ Len(r.w1) = n /\ Len(r.w2) = n
             /\ \A i \in 0 .. (n - 1) : r.t[i + 1] = i * evt.dtMs
    /\ (SnnBuilt /\ snnRun.pc = "idle" /\ snnRun.runs > 0) =>
          LET r == snnRun.result
              n == Rec_length(snnRun.durationMs, snn.dtMs)
          IN /\ Len(r.t) = n
             /\ Len(r.inputSpikes) = n /\ Len(r.hiddenSpikes) = n
             /\ Len(r.outputSpikes) = n /\ Len(r.hiddenV) = n /\ Len(r.outputV) = n
             /\ Len(r.weightsIH) = n /\ Len(r.weightsHO) = n
             /\ Len(r.homeoFactors) = n /\ Len(r.firingRates) = n
             /\ \A i \in 0 .. (n - 1) : r.t[i + 1] = i * snn.dtMs

\* a run of 5 ms at dtMs = 2 has returned its four rows
C15_Witness ==
    /\ SnnBuilt /\ snnRun.pc = "idle" /\ snnRun.runs > 0
    /\ snn.dtMs = 2 /\ snnRun.durationMs = 5
    /\ snnRun.result.t = <<0, 2, 4, 6>>
    /\ Len(snnRun.result.firingRates) = 4

\* a run of the event-based network over 32 ms has returned its 33 rows
C15_WitnessEvt ==
    /\ EvtBuilt /\ evtRun.pc = "idle" /\ evtRun.runs > 0 /\ evtRun.durationMs = 32
    /\ Len(evtRun.result.w2) = 33 /\ evtRun.result.t[33] = 32

\* C18 (as stated): a training run of the 3-layer network triggers the homeostatic
\* update at the steps whose simulated time is a multiple of 50 ms and at no other
\* step, whatever dt is; a test run never triggers it.
C18_HomeostasisEvery50ms ==
    (SnnBuilt /\ snnRun.pc = "idle" /\ snnRun.runs > 0) =>
        LET times == {snnRun.result.t[k] : k \in 1 .. Len(snnRun.result.t)}
            updates == {snnRun.homeoAt[k] : k \in 1 .. Len(snnRun.homeoAt)}
        IN updates = IF snnRun.training THEN {t \in times : t % 50 = 0} ELSE {}

\* the positions of buffer q whose arrival time is at most tMs
Rec_arrived(q, tMs) == {k \in 1 .. Len(q) : q[k].time <= tMs}

\* the sum of the strengths at the positions K of buffer q
RECURSIVE Rec_sumAt(_, _)
Rec_sumAt(q, K) ==
    IF K = {} THEN 0
    ELSE LET k == CHOOSE x \in K : TRUE IN q[k].strength + Rec_sumAt(q, K \ {k})

\* C16: onPreSpike(t) queues one entry due at t + delay behind those already queued;
\* getCurrent(t) returns the sum of exactly the queued entries due at or before t,
\* removes them and leaves the others queued in order; nothing else but reset
\* touches the queue.  So an entry is returned once, by the first getCurrent at or
\* after its due time, and by no earlier one.
C16_DelayedDelivery ==
    [][(unit.kind = "Rec" /\ unit'.ops = unit.ops + 1) =>
         LET q == unit.s.delayBuffer
             q2 == unit'.s.delayBuffer
             due == Rec_arrived(q, unit.t)
         IN CASE unit'.op = "getCurrent" ->
                   /\ unit'.ret = Rec_sumAt(q, due)
                   /\ q2 = SelectSeq(q, LAMBDA it : it.time > unit.t)
                   /\ Len(q2) = Len(q) - Cardinality(due)
              [] unit'.op = "pre" ->
                   /\ Len(q2) = Len(q) + 1
                   /\ SubSeq(q2, 1, Len(q)) = q
                   /\ q2[Len(q2)].time = unit.t + unit.s.delayMs
              [] unit'.op = "reset" -> q2 = <<>>
              [] OTHER -> q2 = q
      ]_vars

\* a getCurrent that returned an arrived strength and left a later one queued
C16_Witness ==
    /\ unit.kind = "Rec" /\ unit.op = "getCurrent"
    /\ unit.ret > 0
    /\ Len(unit.s.delayBuffer) = 1
    /\ unit.s.delayBuffer[1].time > unit.t

\* What a step of the bursting neuron does, the spikes of a burst being sep apart:
\* a threshold spike in normal mode opens a burst of burstSize spikes; while spikes
\* of the burst remain the potential is held, the input is ignored and the next
\* spike comes when sep has passed since the last one; the burst is over, and the
\* neuron in normal mode, when burstSize spikes have been emitted.
Burst_obeys(sep) ==
    (unit.kind = "Burst" /\ unit'.op = "step" /\ unit'.ops = unit.ops + 1) =>
        LET n == unit.s
            n2 == unit'.s
            spike == unit'.lastSpikeAt = unit.t
        IN /\ (n.burstRemaining > 0) =>
                 /\ spike <=> (unit.t - unit.lastSpikeAt = sep)
                 /\ ~spike => n2.v = n.v
                 /\ n2.burstRemaining = n.burstRemaining - (IF spike THEN 1 ELSE 0)
           /\ (n.burstRemaining = 0 /\ spike) => unit'.burst = 1
           /\ (n.burstRemaining = 0 /\ ~spike) => n2.burstRemaining = 0
           /\ spike => unit'.burst = n.p.burstSize - n2.burstRemaining
           /\ (n.burstRemaining > 0 /\ spike) => unit'.gap = sep

SNN_registered(a, b, time) ==
    /\ Len(b.postSpikeHistory) = Len(a.postSpikeHistory) + 1
    /\ b.postSpikeHistory[Len(b.postSpikeHistory)] = time

\* C19: in a step of the 3-layer network a postsynaptic event is registered on the
\* feed-forward synapse (pre, post) exactly when training is set and neuron post
\* spiked in the step, for every pre whether it spiked or not.
C19_PostEventsWhenTraining ==
    [][(snnRun.pc = "loop" /\ snnRun'.step = snnRun.step + 1) =>
         LET time == snnRun.step * snn.dtMs
             hidden == snnRun'.result.hiddenSpikes[snnRun'.step]
             output == snnRun'.result.outputSpikes[snnRun'.step]
         IN /\ \A i \in Idx(snn.nInput), h \in Idx(snn.nHidden) :
                  SNN_registered(snn.synapsesIH[i][h], snn'.synapsesIH[i][h], time)
                      <=> (snnRun.training /\ hidden[h])
            /\ \A h \in Idx(snn.nHidden), o \in Idx(snn.nOutput) :
                  SNN_registered(snn.synapsesHO[h][o], snn'.synapsesHO[h][o], time)
                      <=> (snnRun.training /\ output[o])
      ]_vars

\* a training step in which hidden neuron 0 spiked and input 1 did not, its event
\* registered on the synapse from input 1
C19_Witness ==
    /\ snnRun.pc = "loop" /\ snnRun.training /\ snnRun.step >= 1
    /\ snnRun.result.hiddenSpikes[snnRun.step][0]
    /\ ~snnRun.result.inputSpikes[snnRun.step][1]
    /\ snn.synapsesIH[1][0].postSpikeHistory = <<snnRun.result.t[snnRun.step]>>

\* synapse b is synapse a after trace decay over dt, then a presynaptic event, then
\* a postsynaptic event: depression by the decayed post trace, potentiation by the
\* decayed pre trace plus this step's bump of 1
SNN_decayPrePost(a, b, dt) ==
    LET e == ExpNeg(dt, Homeo_tauTrace)
        pre == Mul(a.tracePre, e)
        post == Mul(a.tracePost, e)
        w1 == Max(a.p.wMin, Min(a.p.wMax,
                  a.w - Mul(Mul(a.p.aMinus, post), a.homeoFactor)))
        w2 == Max(a.p.wMin, Min(a.p.wMax,
                  w1 + Mul(Mul(a.p.aPlus, pre + ONE), a.homeoFactor)))
    IN b.w = w2 /\ b.tracePre = pre + ONE /\ b.tracePost = post + ONE

\* C20: when both neurons of a feed-forward synapse spike in the same training step
\* the synapse's traces decay first, then the presynaptic event is applied, then the
\* postsynaptic event.
C20_DecayThenPreThenPost ==
    [][(snnRun.pc = "loop" /\ snnRun'.step = snnRun.step + 1 /\ snnRun.training) =>
         LET input == snnRun'.result.inputSpikes[snnRun'.step]
             hidden == snnRun'.result.hiddenSpikes[snnRun'.step]
             output == snnRun'.result.outputSpikes[snnRun'.step]
         IN /\ \A i \in Idx(snn.nInput), h \in Idx(snn.nHidden) :
                  (input[i] /\ hidden[h]) =>
                      SNN_decayPrePost(snn.synapsesIH[i][h], snn'.synapsesIH[i][h],
                                       snn.dtMs)
            /\ \A h \in Idx(snn.nHidden), o \in Idx(snn.nOutput) :
                  (hidden[h] /\ output[o]) =>
                      SNN_decayPrePost(snn.synapsesHO[h][o], snn'.synapsesHO[h][o],
                                       snn.dtMs)
      ]_vars

\* a training step in which a hidden neuron and an output neuron both spiked, the
\* synapse between them entering the step with both traces above zero
C20_Witness ==
    /\ SnnBuilt /\ snnRun.pc = "loop" /\ snnRun.training /\ snnRun.step >= 2
    /\ \E h \in Idx(snn.nHidden), o \in Idx(snn.nOutput) :
          /\ snnRun.result.hiddenSpikes[snnRun.step][h]
          /\ snnRun.result.outputSpikes[snnRun.step][o]
          /\ snn.synapsesHO[h][o].tracePre > ONE
          /\ snn.synapsesHO[h][o].tracePost > ONE
          /\ snn.synapsesHO[h][o].w > snn.synapsesHO[h][o].p.w

\* C21: a presynaptic spike of a RecurrentSynapse raises facilitation by
\* uFacilitation * (1 - facilitation), queues weight * (raised facilitation) *
\* (depression as it was), and then multiplies depression by (1 - raised
\* facilitation); onPreSpike, decayVariables and getCurrent leave the weight alone.
C21_StrengthBeforeDepression ==
    [][(unit.kind = "Rec" /\ unit'.op \in {"pre", "decay", "getCurrent"}) =>
         /\ unit'.s.w = unit.s.w
         /\ unit'.op = "pre" =>
               LET raised == unit.s.facilitation
                               + Mul(Rec_uFacilitation, ONE - unit.s.facilitation)
                   n == Len(unit.s.delayBuffer)
               IN /\ unit'.s.facilitation = raised
                  /\ Len(unit'.s.delayBuffer) = n + 1
                  /\ SubSeq(unit'.s.delayBuffer, 1, n) = unit.s.delayBuffer
                  /\ unit'.s.delayBuffer[n + 1].strength
                        = Mul(Mul(unit.s.w, raised), unit.s.depression)
                  /\ unit'.s.depression = Mul(unit.s.depression, ONE - raised)
      ]_vars

\* a second presynaptic spike, queued while depression is already below 1
C21_Witness ==
    /\ unit.kind = "Rec" /\ unit.op = "pre" /\ unit.s.w > 0
    /\ Len(unit.s.delayBuffer) >= 2
    /\ unit.s.delayBuffer[2].strength > 0
    /\ unit.s.delayBuffer[2].strength < unit.s.delayBuffer[1].strength
    /\ unit.s.depression < ONE

\* the opposite spike the call refers to lies inside the lookback window
STDP_inWindow(last, tMs) ==
    last # NegInf /\ tMs - last >= 0 /\ tMs - last < STDP_lookback

STDP_unclamped(s) == s.wMin < s.w /\ s.w < s.wMax

\* C22: onPreSpike(t) of the event-based synapse lowers the weight exactly when the
\* latest postsynaptic spike since the reset lies inside the lookback window, and
\* onPostSpike(t) raises it exactly when the latest presynaptic spike does; each call
\* records t as the latest spike of its side.
C22_ChangesIffInWindow ==
    [][(unit.kind = "STDP" /\ unit'.op \in {"pre", "post"} /\ STDP_unclamped(unit'.s)) =>
         IF unit'.op = "pre"
         THEN /\ (unit'.s.w < unit.s.w) <=> STDP_inWindow(unit.s.tPostLast, unit.t)
              /\ STDP_inWindow(unit.s.tPostLast, unit.t) \/ unit'.s.w = unit.s.w
              /\ unit'.s.tPreLast = unit.t /\ unit'.s.tPostLast = unit.s.tPostLast
         ELSE /\ (unit'.s.w > unit.s.w) <=> STDP_inWindow(unit.s.tPreLast, unit.t)
              /\ STDP_inWindow(unit.s.tPreLast, unit.t) \/ unit'.s.w = unit.s.w
              /\ unit'.s.tPostLast = unit.t /\ unit'.s.tPreLast = unit.s.tPreLast
      ]_vars

\* C22 (as the code has it): inside the window the call adds -aMinus * exp(-dt / tau)
\* (resp. +aPlus * exp(-dt / tau)) and clamps, outside it leaves the weight alone;
\* the stored weight moves only when that amount is large enough to be represented.
C22_UpdateAppliedIffInWindow ==
    [][(unit.kind = "STDP" /\ unit'.op \in {"pre", "post"}) =>
         IF unit'.op = "pre"
         THEN LET dw == IF STDP_inWindow(unit.s.tPostLast, unit.t)
                        THEN Mul(STDP_aMinus,
                                 ExpNeg(unit.t - unit.s.tPostLast, STDP_tauMinusMs))
                        ELSE 0
              IN /\ unit'.s.w = IF STDP_inWindow(unit.s.tPostLast, unit.t)
                                THEN Max(unit.s.wMin, Min(unit.s.wMax, unit.s.w - dw))
                                ELSE unit.s.w
                 /\ unit'.s.tPreLast = unit.t /\ unit'.s.tPostLast = unit.s.tPostLast
         ELSE LET dw == IF STDP_inWindow(unit.s.tPreLast, unit.t)
                        THEN Mul(STDP_aPlus,
                                 ExpNeg(unit.t - unit.s.tPreLast, STDP_tauPlusMs))
                        ELSE 0
              IN /\ unit'.s.w = IF STDP_inWindow(unit.s.tPreLast, unit.t)
                                THEN Max(unit.s.wMin, Min(unit.s.wMax, unit.s.w + dw))
                                ELSE unit.s.w
                 /\ unit'.s.tPostLast = unit.t /\ unit'.s.tPreLast = unit.s.tPreLast
      ]_vars

\* a presynaptic spike long after the postsynaptic one, still inside the window, the
\* weight being what the constructor set
C22_Witness ==
    /\ unit.kind = "STDP" /\ unit.op = "pre"
    /\ unit.s.tPostLast # NegInf
    /\ unit.s.tPreLast - unit.s.tPostLast >= 1000
    /\ unit.s.tPreLast - unit.s.tPostLast < STDP_lookback
    /\ unit.s.w = unit.s0.w

\* the recorded step k is a step nearest to the scheduled time
Run_nearest(t, k, spikeMs) ==
    \A j \in 1 .. Len(t) : Abs(t[k] - spikeMs) <= Abs(t[j] - spikeMs)

\* a channel with pulse steps `pulsed` and spike steps `spiked` over the recorded
\* times t: at most one pulse, and for a time scheduled inside the run exactly one
\* pulse, on the nearest step, the input neuron spiking on that step only
Run_onePulse(t, pulsed, spiked, scheduled, spikeMs, durationMs) ==
    /\ Cardinality(pulsed) <= 1
    /\ (scheduled /\ 0 <= spikeMs /\ spikeMs <= durationMs) =>
          /\ Cardinality(pulsed) = 1
          /\ \A k \in pulsed : Run_nearest(t, k, spikeMs)
          /\ spiked = pulsed

\* C23: in a completed run of the event-based network or of the 3-layer network every
\* input channel is pulsed on at most one step, and a channel whose scheduled spike
\* time lies in [0, duration] is pulsed on exactly one step, the nearest to that time,
\* its input neuron spiking on that step and on no other.
C23_OnePulsePerScheduledSpike ==
    /\ (SnnBuilt /\ snnRun.pc = "loop" /\ snnRun.step = snnRun.steps) =>
          \A i \in Idx(snn.nInput) :
             LET r == snnRun.result
                 K == 1 .. snnRun.steps
                 scheduled == i + 1 <= Len(snnRun.spikeTimes)
             IN Run_onePulse(r.t,
                    {k \in K : SNN_pulse(snn, snnRun.spikeTimes, i, r.t[k]) > 0},
                    {k \in K : r.inputSpikes[k][i]},
                    scheduled,
                    IF scheduled THEN snnRun.spikeTimes[i + 1] ELSE 0,
                    snnRun.durationMs)
    /\ (EvtBuilt /\ evtRun.pc = "loop" /\ evtRun.i = evtRun.steps) =>
          LET r == evtRun.result
              K == 1 .. evtRun.steps
          IN /\ Run_onePulse(r.t,
                    {k \in K : Evt_pulse(evt, r.t[k], evtRun.pattern.pre1SpikeMs) > 0},
                    {k \in K : r.pre1[k]}, TRUE,
                    evtRun.pattern.pre1SpikeMs, evtRun.durationMs)
             /\ Run_onePulse(r.t,
                    {k \in K : Evt_pulse(evt, r.t[k], evtRun.pattern.pre2SpikeMs) > 0},
                    {k \in K : r.pre2[k]}, TRUE,
                    evtRun.pattern.pre2SpikeMs, evtRun.durationMs)

\* the diagonal synapses of layer L are at weight 0 and current 0
Lay_diagonalZero(L) ==
    \A i \in Idx(L.size) :
        /\ L.inhibitorySynapses[i][i].w = 0
        /\ L.inhibitorySynapses[i][i].inhibitoryCurrent = 0

\* C24: through every sequence of steps and resets each diagonal inhibitory synapse
\* stays at weight 0 and current 0; the inhibition a step applies to neuron j is the
\* decayed charge of the synapses coming from the other neurons, and a step charges a
\* synapse into j by the spike of its source neuron only, never by a spike of j.
C24_NoSelfInhibition ==
    [][/\ lay.pc = "on" => (Lay_diagonalZero(lay.A) /\ Lay_diagonalZero(lay.B))
       /\ lay'.pc = "on" => (Lay_diagonalZero(lay'.A) /\ Lay_diagonalZero(lay'.B))
       /\ (lay.pc = "on" /\ lay'.k = lay.k + 1) =>
             \A j \in Idx(lay.A.size) :
                LET decayed(i) ==
                        Mul(lay.A.inhibitorySynapses[i][j].inhibitoryCurrent,
                            ExpNeg(lay.dt, lay.A.inhibitorySynapses[i][j].tauDecay))
                IN /\ lay'.last.inhibitions[j]
                        = 0 - SumFn([i \in Idx(lay.A.size) |->
                                       IF i = j THEN 0 ELSE decayed(i)], lay.A.size)
                   /\ \A i \in Idx(lay.A.size) \ {j} :
                         lay'.A.inhibitorySynapses[i][j].inhibitoryCurrent
                           = decayed(i) + (IF lay'.last.spikes[i]
                                           THEN lay.A.inhibitorySynapses[i][j].w ELSE 0)
      ]_vars

\* after a reset, a neuron has spiked twice and charged the synapses to the others
C24_Witness ==
    /\ lay.pc = "on" /\ lay.resets = 1 /\ lay.k >= 2
    /\ \E i \in Idx(lay.A.size) :
          /\ lay.A.totalSpikesPerNeuron[i] >= 2
          /\ \A j \in Idx(lay.A.size) \ {i} :
                lay.A.inhibitorySynapses[i][j].inhibitoryCurrent > 0
          /\ lay.A.inhibitorySynapses[i][i].inhibitoryCurrent = 0

\* layer L after `steps` steps since its construction or last reset: one row of
\* history per step, and per neuron the total, the trues of its column and its own
\* spike count all equal
Lay_countsAgree(L, steps) ==
    /\ Len(L.spikeHistory) = steps
    /\ \A i \in Idx(L.size) :
          /\ L.totalSpikesPerNeuron[i]
                = Cardinality({t \in 1 .. Len(L.spikeHistory) : L.spikeHistory[t][i]})
          /\ L.totalSpikesPerNeuron[i] = L.neurons[i].spikeCount

\* C30: in every reachable state of a SpikingLayer spikeHistory has one entry per
\* step taken since the last reset, and totalSpikesPerNeuron[i] equals the number of
\* true entries in column i of spikeHistory and neuron i's own spikeCount.
C30_HistoryAndCountsAgree ==
    lay.pc = "on" => (Lay_countsAgree(lay.A, lay.k) /\ Lay_countsAgree(lay.B, lay.k))

\* steps taken after a reset that followed earlier spikes, some neuron having spiked
\* again and another not
C30_Witness ==
    /\ lay.pc = "on" /\ lay.resets = 1 /\ lay.k >= 3
    /\ \E i, j \in Idx(lay.A.size) :
          /\ lay.A.totalSpikesPerNeuron[i] >= 2
          /\ lay.A.totalSpikesPerNeuron[j] = 0

\* the factor the first n homeostatic updates of the current run leave, starting from
\* 1.0, computed from the run's own record: `times` the update times, t the recorded
\* times, raster the recorded spikes of the postsynaptic layer, post the neuron
RECURSIVE Homeo_factorOfRun(_, _, _, _, _, _, _)
Homeo_factorOfRun(times, n, t, raster, post, targetRate, homeoStrength) ==
    IF n = 0 THEN ONE
    ELSE LET before == Homeo_factorOfRun(times, n - 1, t, raster, post, targetRate,
                                         homeoStrength)
             seen == {k \in 1 .. Len(raster) :
                        /\ t[k] <= times[n] /\ times[n] - t[k] < Homeo_windowMs
                        /\ raster[k][post]}
         IN Max(Homeo_factorMin,
                Min(Homeo_factorMax,
                    before + homeoStrength * (targetRate - Cardinality(seen))))

\* the factor of synapse syn towards neuron post of the layer recorded in raster is
\* what the current run's own spikes make it
SNN_factorFromThisRun(syn, raster, post) ==
    syn.homeoFactor
      = Homeo_factorOfRun(snnRun.homeoAt, Len(snnRun.homeoAt), snnRun.result.t, raster,
                          post, syn.p.targetRate, syn.p.homeoStrength)

\* C25: a run of the 3-layer network starts with every homeostatic factor at 1.0, so
\* in and after a training run each factor is what the updates of that run, fed by
\* the spikes of that run alone, make of 1.0, and in and after a test run every
\* factor is 1.0.
C25_FactorsOfThisRunOnly ==
    snnRun.runs >= 1 =>
        /\ \A i \in Idx(snn.nInput), h \in Idx(snn.nHidden) :
              /\ SNN_factorFromThisRun(snn.synapsesIH[i][h],
                                       snnRun.result.hiddenSpikes, h)
              /\ ~snnRun.training => snn.synapsesIH[i][h].homeoFactor = ONE
        /\ \A h \in Idx(snn.nHidden), o \in Idx(snn.nOutput) :
              /\ SNN_factorFromThisRun(snn.synapsesHO[h][o],
                                       snnRun.result.outputSpikes, o)
              /\ ~snnRun.training => snn.synapsesHO[h][o].homeoFactor = ONE

\* a second run, a test, has returned on a network whose weights an earlier training
\* run moved
C25_Witness ==
    /\ snnRun.runs = 2 /\ snnRun.pc = "idle" /\ snnRun.op = "test"
    /\ Len(snnRun.result.t) > 1
    /\ \E i \in Idx(snn.nInput), h \in Idx(snn.nHidden) :
          /\ snn.synapsesIH[i][h].w > snn.synapsesIH[i][h].p.w
          /\ snn.synapsesIH[i][h].homeoFactor = ONE

\* C26: a non-training run that follows a non-training run of the same pattern and
\* duration on the same network returns the record the first one returned.
C26_RepeatedTestSameRecord ==
    (/\ snnRun.pc = "idle" /\ snnRun.op = "test" /\ snnRun.prev.op = "test"
     /\ snnRun.prev.spikeTimes = snnRun.spikeTimes
     /\ snnRun.prev.durationMs = snnRun.durationMs) =>
        snnRun.result = snnRun.prev.result

\* a recurrent current is due at neuron h of the hidden layer at time tMs
SNN_recurrentDue(net, h, tMs) ==
    /\ net.enableRecurrent
    /\ \E j \in Idx(net.nHidden) \ {h} :
          \E k \in 1 .. Len(net.recurrentSynapses[j][h].delayBuffer) :
             /\ net.recurrentSynapses[j][h].delayBuffer[k].time <= tMs
             /\ net.recurrentSynapses[j][h].delayBuffer[k].strength > 0

\* the step just recorded has no output spike without a hidden spike and no hidden
\* spike without an input spike or a recurrent current due
SNN_spikesAreDriven ==
    LET k == snnRun'.step
        r == snnRun'.result
    IN /\ \A o \in Idx(snn.nOutput) :
             r.outputSpikes[k][o] => \E h \in Idx(snn.nHidden) : r.hiddenSpikes[k][h]
       /\ \A h \in Idx(snn.nHidden) :
             r.hiddenSpikes[k][h] =>
                \/ \E i \in Idx(snn.nInput) : r.inputSpikes[k][i]
                \/ SNN_recurrentDue(snn, h, r.t[k])

\* C27 (as stated): in the 3-layer network an output neuron spikes at a step only if
\* a hidden neuron spiked at that step, and a hidden neuron spikes at a step only if
\* an input neuron spiked at it or a delayed recurrent current arrived at it.
C27_SpikesOnlyWhenDriven ==
    [][(SnnBuilt /\ snnRun.pc = "loop" /\ snnRun'.step = snnRun.step + 1) =>
         SNN_spikesAreDriven]_vars

\* C27 (amended): the same, for a step no longer than the membrane time constant of
\* the layers.
C27_SpikesOnlyWhenDrivenAtFineSteps ==
    [][(/\ SnnBuilt /\ snnRun.pc = "loop" /\ snnRun'.step = snnRun.step + 1
        /\ snn.dtMs <= SNN_layerTauMs) =>
         SNN_spikesAreDriven]_vars

\* a fine-step run in which an input spike drives a hidden and an output spike after
\* the first step
C27_Witness ==
    /\ SnnBuilt /\ snnRun.pc = "loop" /\ snnRun.step >= 2
    /\ snn.dtMs <= SNN_layerTauMs
    /\ \E h \in Idx(snn.nHidden), o \in Idx(snn.nOutput), i \in Idx(snn.nInput) :
          /\ snnRun.result.inputSpikes[snnRun.step][i]
          /\ snnRun.result.hiddenSpikes[snnRun.step][h]
          /\ snnRun.result.outputSpikes[snnRun.step][o]

\* C28: in the trace-based network the output neuron is stepped before the
\* synapses deliver their bump, so whether it spikes at a step is settled by its own
\* state before the step, whatever the inputs do at that step; and when its
\* refractory countdown is positive after its own step (the step of its spike
\* included) the bumps of that step leave it as its own step left it.
C28_OutputSteppedBeforeBump ==
    [][(unit.kind = "TraceNet" /\ unit'.op = "netStep" /\ unit'.ops = unit.ops + 1) =>
         LET ro == TL_step(unit.s.net.output, 0, unit.dt, unit.t)
         IN /\ unit'.s.spO = ro.spike
            /\ ro.n.refractoryTimer > 0 => unit'.s.net.output = ro.n
            /\ (ro.n.refractoryTimer <= 0 /\ (unit'.s.sp1 \/ unit'.s.sp2))
                  => unit'.s.net.output.v > ro.n.v
      ]_vars

\* the output neuron spikes at a step at which an input spikes too: the bump of
\* that input is discarded, the output is left at its reset potential
C28_Witness ==
    /\ unit.kind = "TraceNet" /\ unit.op = "netStep"
    /\ unit.s.spO /\ (unit.s.sp1 \/ unit.s.sp2)
    /\ unit.s.net.output.v = TL_v_reset * ONE
    /\ unit.s.net.output.refractoryTimer > 0

\* C29: with a step of 1 ms and the recurrent delay of 2 ms, the recurrent current
\* added to hidden neuron h at step k of a run is positive exactly when recurrence
\* is enabled and another hidden neuron spiked at step k - 2 of the same run; a run
\* starts with every delay buffer empty, so nothing queued by an earlier run is
\* ever delivered.
C29_RecurrentAfterTwoSteps ==
    [][(SnnBuilt /\ snn.dtMs = 1) =>
         /\ (snnRun.pc = "loop" /\ snnRun'.step = snnRun.step + 1) =>
               LET it == SNN_iteration(snn, snnRun.spikeTimes, snnRun.training,
                                       snnRun.step)
                   k == snnRun.step
               IN \A h \in Idx(snn.nHidden) :
                     /\ it.recurrentCurrents[h] >= 0
                     /\ it.recurrentCurrents[h] > 0 <=>
                           /\ snn.enableRecurrent
                           /\ k >= 2
                           /\ \E j \in Idx(snn.nHidden) \ {h} :
                                 snnRun.result.hiddenSpikes[k - 1][j]
         /\ (snnRun.pc = "idle" /\ snnRun'.pc = "loop") =>
               \A j \in Idx(snn.nHidden), h \in Idx(snn.nHidden) :
                  snn'.recurrentSynapses[j][h].delayBuffer = <<>>
      ]_vars

\* a second run, after a test that ended with a hidden spike still queued, has just
\* delivered the recurrent current of a hidden spike of its own two steps earlier
C29_Witness ==
    /\ SnnBuilt /\ snn.dtMs = 1 /\ snn.enableRecurrent
    /\ snnRun.runs = 2 /\ snnRun.pc = "loop" /\ snnRun.step >= 3
    /\ \E j \in Idx(snn.nHidden) : snnRun.result.hiddenSpikes[snnRun.step - 2][j]
    /\ snnRun.prev.op = "test"
    /\ Len(snnRun.prev.result.hiddenSpikes) >= 2
    /\ \E j \in Idx(snn.nHidden) :
          snnRun.prev.result.hiddenSpikes[Len(snnRun.prev.result.hiddenSpikes) - 1][j]

====
